---- MODULE Spec2Model ----
(***************************************************************************)
(* Fibulopedia: the data normalisation layer (services/data_loader.py,    *)
(* services/monsters_service.py, services/server_info_service.py) and the  *)
(* unified search (services/search_service.py, known from its tests and    *)
(* its description).                                                       *)
(*                                                                         *)
(* The state is the backing file, the last call observed and the loggers   *)
(* of the logging module.  The specifications are Spec (loading),          *)
(* SpecCoerce (the coercion functions), SpecSave (save_json and            *)
(* load_json), SpecQuery (the monster queries), SpecEdit (the queries      *)
(* between external edits of the file), SpecServer (load_server_info),     *)
(* SpecSearch (search_all and search_by_entity_type), SpecSnippet          *)
(* (create_snippet), SpecLogger (setup_logger) and SpecConcurrent (the     *)
(* monster queries of several requests, step by step).                     *)
(*                                                                         *)
(* Python values are tagged records of one shape.  A string is a sequence  *)
(* of one-character strings, so that parsing, substring tests and str()    *)
(* are computed character by character.  A number is n * 10^(-d): an int   *)
(* has d <= 0 (d < 0 only for integers too large to write out), a finite   *)
(* float has the decimal scale d of its literal.  A mapping is its         *)
(* sequence of <<key, value>> pairs in insertion order, keys distinct.     *)
(* A call that raises is the pair exc /= "none"; a call that returns has   *)
(* exc = "none" and its value in ret.                                      *)
(***************************************************************************)
EXTENDS Integers, Sequences, FiniteSets, TLC

VARIABLES file, call, loggers

vars == <<file, call, loggers>>

\* ---------------------------------------------------------------- bounds
MaxStrLen == 3
MaxRecords == 2
MaxRequests == 2

\* ------------------------------------------------------- Python values
Null == [t |-> "null", n |-> 0, d |-> 0, k |-> "", s |-> <<>>, xs |-> <<>>]

BoolV(b) == [t |-> "bool", n |-> IF b THEN 1 ELSE 0, d |-> 0, k |-> "", s |-> <<>>, xs |-> <<>>]

IntV(i) == [t |-> "int", n |-> i, d |-> 0, k |-> "", s |-> <<>>, xs |-> <<>>]

\* the integer m * 10^e, for integers beyond the range of a float
BigIntV(m, e) == [t |-> "int", n |-> m, d |-> 0 - e, k |-> "", s |-> <<>>, xs |-> <<>>]

\* the finite float m * 10^(-sc)
FloatV(m, sc) == [t |-> "float", n |-> m, d |-> sc, k |-> "fin", s |-> <<>>, xs |-> <<>>]

Inf(sign) == [t |-> "float", n |-> sign, d |-> 0, k |-> "inf", s |-> <<>>, xs |-> <<>>]

NaN == [t |-> "float", n |-> 0, d |-> 0, k |-> "nan", s |-> <<>>, xs |-> <<>>]

StrV(cs) == [t |-> "str", n |-> 0, d |-> 0, k |-> "", s |-> cs, xs |-> <<>>]

ListV(vs) == [t |-> "list", n |-> 0, d |-> 0, k |-> "", s |-> <<>>, xs |-> vs]

DictV(pairs) == [t |-> "dict", n |-> 0, d |-> 0, k |-> "", s |-> <<>>, xs |-> pairs]

\* the outcome of a call: a returned value or a raised exception
Return(v) == [exc |-> "none", ret |-> v]

Raise(e) == [exc |-> e, ret |-> Null]

\* ------------------------------------------------------------ arithmetic
Abs(i) == IF i < 0 THEN 0 - i ELSE i

Sign(i) == IF i < 0 THEN 0 - 1 ELSE 1

RECURSIVE Pow10(_)
Pow10(e) == IF e <= 0 THEN 1 ELSE 10 * Pow10(e - 1)

\* the canonical form of a finite float: no trailing zero in the fraction
RECURSIVE Normalize(_, _)
Normalize(m, sc) ==
    IF sc > 0 /\ m % 10 = 0 THEN Normalize(m \div 10, sc - 1) ELSE FloatV(m, sc)

\* ---------------------------------------------------------------- text
DigitSeq == <<"0", "1", "2", "3", "4", "5", "6", "7", "8", "9">>

IsDigit(c) == \E i \in 1..10 : DigitSeq[i] = c

DigitVal(c) == (CHOOSE i \in 1..10 : DigitSeq[i] = c) - 1

IsSpace(c) == c = " "

RECURSIVE LStrip(_)
LStrip(cs) == IF cs /= <<>> /\ IsSpace(Head(cs)) THEN LStrip(Tail(cs)) ELSE cs

RECURSIVE RStrip(_)
RStrip(cs) ==
    IF cs /= <<>> /\ IsSpace(cs[Len(cs)]) THEN RStrip(SubSeq(cs, 1, Len(cs) - 1)) ELSE cs

Strip(cs) == RStrip(LStrip(cs))

\* the value of a digit string, most significant digit first
RECURSIVE DigitsVal(_)
DigitsVal(cs) ==
    IF cs = <<>> THEN 0
    ELSE 10 * DigitsVal(SubSeq(cs, 1, Len(cs) - 1)) + DigitVal(cs[Len(cs)])

\* digits, with single underscores allowed between two digits
IsIntBody(cs) ==
    /\ cs /= <<>>
    /\ IsDigit(cs[1])
    /\ IsDigit(cs[Len(cs)])
    /\ \A i \in 1..Len(cs) : IsDigit(cs[i]) \/ cs[i] = "_"
    /\ \A i \in 1..(Len(cs) - 1) : ~(cs[i] = "_" /\ cs[i + 1] = "_")

RECURSIVE DropUnderscores(_)
DropUnderscores(cs) ==
    IF cs = <<>> THEN <<>>
    ELSE IF Head(cs) = "_" THEN DropUnderscores(Tail(cs))
    ELSE <<Head(cs)>> \o DropUnderscores(Tail(cs))

HasSign(cs) == cs /= <<>> /\ (cs[1] = "-" \/ cs[1] = "+")

SignOf(cs) == IF cs /= <<>> /\ cs[1] = "-" THEN 0 - 1 ELSE 1

Unsigned(cs) == IF HasSign(cs) THEN Tail(cs) ELSE cs

\* int(str): surrounding whitespace, an optional sign, decimal digits
ParseInt(cs) ==
    LET body == Unsigned(Strip(cs))
    IN  IF IsIntBody(body)
        THEN Return(IntV(SignOf(Strip(cs)) * DigitsVal(DropUnderscores(body))))
        ELSE Raise("ValueError")

\* str.lower() of one character: the letters A to Z change, nothing else
LowerChar(c) ==
    LET UpperLetters ==
            <<"A", "B", "C", "D", "E", "F", "G", "H", "I", "J", "K", "L", "M",
              "N", "O", "P", "Q", "R", "S", "T", "U", "V", "W", "X", "Y", "Z">>
        LowerLetters ==
            <<"a", "b", "c", "d", "e", "f", "g", "h", "i", "j", "k", "l", "m",
              "n", "o", "p", "q", "r", "s", "t", "u", "v", "w", "x", "y", "z">>
    IN  IF \E i \in 1..26 : UpperLetters[i] = c
        THEN LowerLetters[CHOOSE i \in 1..26 : UpperLetters[i] = c]
        ELSE c

Lower(cs) == [i \in 1..Len(cs) |-> LowerChar(cs[i])]

\* the position of the first "." of cs, 0 when there is none
IndexOfDot(cs) ==
    IF \E i \in 1..Len(cs) : cs[i] = "."
    THEN CHOOSE i \in 1..Len(cs) : cs[i] = "." /\ \A j \in 1..(i - 1) : cs[j] /= "."
    ELSE 0

\* the integer or the fraction part of a decimal literal: empty, or digits
IsDigitPart(cs) == cs = <<>> \/ IsIntBody(cs)

\* float(str): whitespace, an optional sign, then inf, infinity, nan or a
\* decimal literal with at least one digit (no exponent part)
ParseFloat(cs) ==
    LET body == Unsigned(Strip(cs))
        sg == SignOf(Strip(cs))
        low == Lower(body)
        dot == IndexOfDot(body)
        ip == IF dot = 0 THEN body ELSE SubSeq(body, 1, dot - 1)
        fp == IF dot = 0 THEN <<>> ELSE SubSeq(body, dot + 1, Len(body))
    IN  IF low = <<"i", "n", "f">> \/ low = <<"i", "n", "f", "i", "n", "i", "t", "y">>
        THEN Return(Inf(sg))
        ELSE IF low = <<"n", "a", "n">>
        THEN Return(NaN)
        ELSE IF IsDigitPart(ip) /\ IsDigitPart(fp) /\ Len(ip) + Len(fp) > 0
        THEN Return(Normalize(sg * DigitsVal(DropUnderscores(ip) \o DropUnderscores(fp)),
                              Len(DropUnderscores(fp))))
        ELSE Raise("ValueError")

\* ---------------------------------------------------- int() and float()
\* the largest decimal exponent of a finite double (DBL_MAX is 1.79...e308)
DBL_MAX_10_EXP == 308

\* float truncated toward zero
Trunc(m, sc) == Sign(m) * (Abs(m) \div Pow10(sc))

\* Python's int(value)
PyInt(v) ==
    CASE v.t = "null" -> Raise("TypeError")
      [] v.t = "bool" -> Return(IntV(v.n))
      [] v.t = "int" -> Return(v)
      [] v.t = "float" ->
            IF v.k = "inf" THEN Raise("OverflowError")
            ELSE IF v.k = "nan" THEN Raise("ValueError")
            ELSE Return(IntV(Trunc(v.n, v.d)))
      [] v.t = "str" -> ParseInt(v.s)
      [] OTHER -> Raise("TypeError")

\* an integer m * 10^e with a one-digit m, compared with DBL_MAX
TooBigForFloat(v) ==
    /\ v.n /= 0
    /\ \/ 0 - v.d > DBL_MAX_10_EXP
       \/ 0 - v.d = DBL_MAX_10_EXP /\ Abs(v.n) >= 2

\* Python's float(value)
PyFloat(v) ==
    CASE v.t = "null" -> Raise("TypeError")
      [] v.t = "bool" -> Return(FloatV(v.n, 0))
      [] v.t = "int" ->
            IF TooBigForFloat(v) THEN Raise("OverflowError")
            ELSE Return(FloatV(v.n, v.d))
      [] v.t = "float" -> Return(v)
      [] v.t = "str" -> ParseFloat(v.s)
      [] OTHER -> Raise("TypeError")

\* ------------------------------------------------------ data_loader.py
\* safe_int without its except clause: the conversion error propagates
safe_int_unguarded(value, default) == PyInt(value)

\* safe_int falling back on a float-then-int cast of a numeric string
safe_int_lenient(value, default) ==
    LET r == PyInt(value)
        fl == PyFloat(value)
    IN  IF r.exc = "ValueError" /\ value.t = "str" /\ fl.exc = "none" /\ fl.ret.k = "fin"
        THEN Return(IntV(Trunc(fl.ret.n, fl.ret.d)))
        ELSE IF r.exc \in {"ValueError", "TypeError"} THEN Return(default) ELSE r

\* try: return int(value)  except (ValueError, TypeError): return default
safe_int(value, default) ==
    LET r == PyInt(value)
    IN  IF r.exc \in {"ValueError", "TypeError"} THEN Return(default) ELSE r

\* try: return float(value)  except (ValueError, TypeError): return default
safe_float(value, default) ==
    LET r == PyFloat(value)
    IN  IF r.exc \in {"ValueError", "TypeError"} THEN Return(default) ELSE r

\* safe_list testing  not value  instead of  value is None
safe_list_falsy(value, default) ==
    LET dflt == IF default.t = "null" THEN ListV(<<>>) ELSE default
        falsy == value.t = "null" \/ (value.t \in {"bool", "int", "float"} /\ value.n = 0 /\ value.k /= "inf" /\ value.k /= "nan")
                    \/ (value.t = "str" /\ value.s = <<>>)
    IN  IF value.t = "list" THEN Return(value)
        ELSE IF falsy THEN Return(dflt)
        ELSE Return(ListV(<<value>>))

\* default is None or a list; None stands for the empty list
safe_list(value, default) ==
    LET dflt == IF default.t = "null" THEN ListV(<<>>) ELSE default
    IN  IF value.t = "list" THEN Return(value)
        ELSE IF value.t = "null" THEN Return(dflt)
        ELSE Return(ListV(<<value>>))

\* --------------------------------------------------------------- str()
RECURSIVE NatToStr(_)
NatToStr(i) ==
    IF i < 10 THEN <<DigitSeq[i + 1]>> ELSE NatToStr(i \div 10) \o <<DigitSeq[(i % 10) + 1]>>

IntToStr(i) == IF i < 0 THEN <<"-">> \o NatToStr(0 - i) ELSE NatToStr(i)

RECURSIVE Zeros(_)
Zeros(k) == IF k <= 0 THEN <<>> ELSE <<"0">> \o Zeros(k - 1)

\* the fraction digits of a finite float of scale sc > 0, zero-padded
FracToStr(m, sc) ==
    LET f == NatToStr(Abs(m) % Pow10(sc))
    IN  Zeros(sc - Len(f)) \o f

\* repr of a float: 42.7, 42.0, inf, -inf, nan, 1e+308
FloatToStr(v) ==
    IF v.k = "inf" THEN (IF v.n < 0 THEN <<"-">> ELSE <<>>) \o <<"i", "n", "f">>
    ELSE IF v.k = "nan" THEN <<"n", "a", "n">>
    ELSE IF v.d < 0 THEN IntToStr(v.n) \o <<"e", "+">> \o NatToStr(0 - v.d)
    ELSE IF v.d = 0 THEN IntToStr(v.n) \o <<".", "0">>
    ELSE (IF v.n < 0 THEN <<"-">> ELSE <<>>)
            \o NatToStr(Abs(v.n) \div Pow10(v.d)) \o <<".">> \o FracToStr(v.n, v.d)

RECURSIVE PyStr(_), PyRepr(_), JoinRepr(_, _)
\* Python's str(value)
PyStr(v) ==
    CASE v.t = "null" -> <<"N", "o", "n", "e">>
      [] v.t = "bool" -> IF v.n = 1 THEN <<"T", "r", "u", "e">> ELSE <<"F", "a", "l", "s", "e">>
      [] v.t = "int" -> IntToStr(v.n) \o Zeros(0 - v.d)
      [] v.t = "float" -> FloatToStr(v)
      [] v.t = "str" -> v.s
      [] v.t = "list" -> <<"[">> \o JoinRepr(v.xs, FALSE) \o <<"]">>
      [] OTHER -> <<"{">> \o JoinRepr(v.xs, TRUE) \o <<"}">>

\* Python's repr(value): a string is quoted, anything else prints as str()
PyRepr(v) == IF v.t = "str" THEN <<"'">> \o v.s \o <<"'">> ELSE PyStr(v)

\* the elements of a list, or the key: value pairs of a mapping, comma separated
JoinRepr(xs, pairs) ==
    IF xs = <<>> THEN <<>>
    ELSE LET one == IF pairs
                    THEN <<"'">> \o Head(xs)[1] \o <<"'", ":", " ">> \o PyRepr(Head(xs)[2])
                    ELSE PyRepr(Head(xs))
         IN  IF Len(xs) = 1 THEN one ELSE one \o <<",", " ">> \o JoinRepr(Tail(xs), pairs)

\* ------------------------------------------------- containers: in, [], get
IsSubstring(sub, cs) ==
    \E i \in 0..(Len(cs) - Len(sub)) : SubSeq(cs, i + 1, i + Len(sub)) = sub

HasKey(v, key) == \E i \in 1..Len(v.xs) : v.xs[i][1] = key

\* d[key] of a mapping that has the key
Lookup(v, key) == v.xs[CHOOSE i \in 1..Len(v.xs) : v.xs[i][1] = key][2]

\* the operator  key in data : a key of a mapping, a substring of a string,
\* an element of a list; any other operand is not iterable
PyIn(key, data) ==
    CASE data.t = "dict" -> Return(BoolV(HasKey(data, key)))
      [] data.t = "str" -> Return(BoolV(IsSubstring(key, data.s)))
      [] data.t = "list" -> Return(BoolV(\E i \in 1..Len(data.xs) : data.xs[i] = StrV(key)))
      [] OTHER -> Raise("TypeError")

\* item[key] with a string key: only a mapping can be indexed by a string
PyGetItem(item, key) ==
    IF item.t = "dict"
    THEN (IF HasKey(item, key) THEN Return(Lookup(item, key)) ELSE Raise("KeyError"))
    ELSE Raise("TypeError")

\* item.get(key, default): only a mapping has the method
PyGet(item, key, default) ==
    IF item.t = "dict"
    THEN Return(IF HasKey(item, key) THEN Lookup(item, key) ELSE default)
    ELSE Raise("AttributeError")

\* validate_required_fields taking a field with the value None for missing
validate_required_fields_non_null(data, required_fields) ==
    IF \E i \in 1..Len(required_fields) : PyIn(required_fields[i], data).exc /= "none"
    THEN Raise("TypeError")
    ELSE Return(BoolV(\A i \in 1..Len(required_fields) :
                        /\ PyIn(required_fields[i], data).ret.n = 1
                        /\ data.t = "dict" => Lookup(data, required_fields[i]).t /= "null"))

\* missing_fields = [field for field in required_fields if field not in data]
validate_required_fields(data, required_fields) ==
    IF \E i \in 1..Len(required_fields) : PyIn(required_fields[i], data).exc /= "none"
    THEN Raise("TypeError")
    ELSE Return(BoolV(\A i \in 1..Len(required_fields) : PyIn(required_fields[i], data).ret.n = 1))

\* file_path.exists(): stat() of the path; pathlib answers False for a path
\* that is not there and re-raises any other OSError (EACCES, ENAMETOOLONG)
PathExists(f) ==
    CASE f.kind = "missing" -> Return(BoolV(FALSE))
      [] f.kind = "inaccessible" -> Raise("PermissionError")
      [] OTHER -> Return(BoolV(TRUE))

\* open(file_path) and json.load(f) on the kinds of backing file
ReadJson(f) ==
    CASE f.kind = "missing" -> Raise("FileNotFoundError")
      [] f.kind = "inaccessible" -> Raise("PermissionError")
      [] f.kind = "unreadable" -> Raise("OSError")
      [] f.kind = "garbage" -> Raise("JSONDecodeError")
      [] OTHER -> Return(f.doc)

\* if not file_path.exists(): return None; then the try block and its two handlers
load_json(f) ==
    LET there == PathExists(f)
        r == ReadJson(f)
    IN  IF there.exc /= "none" THEN there
        ELSE IF there.ret.n = 0 THEN Return(Null)
        ELSE IF r.exc = "JSONDecodeError" THEN Return(Null)
        ELSE IF r.exc /= "none" THEN Return(Null)
        ELSE r

\* ------------------------------------------------- json.dump and json.load
\* Python's == on data values: numbers compare by value across bool, int and
\* float, NaN equals nothing, sequences compare element by element and
\* mappings by key, whatever the order of their pairs
RECURSIVE PyEq(_, _)
PyEq(a, b) ==
    LET IsNumber(v) == v.t \in {"bool", "int", "float"}
        sa == IF a.d > b.d THEN 0 ELSE b.d - a.d
        sb == IF b.d > a.d THEN 0 ELSE a.d - b.d
        NumEq ==
            IF a.k = "nan" \/ b.k = "nan" THEN FALSE
            ELSE IF a.k = "inf" \/ b.k = "inf" THEN a.k = b.k /\ a.n = b.n
            ELSE IF sa > 9 \/ sb > 9 THEN a.n = 0 /\ b.n = 0
            ELSE a.n * Pow10(sb) = b.n * Pow10(sa)
    IN  IF IsNumber(a) /\ IsNumber(b) THEN NumEq
        ELSE IF a.t /= b.t THEN FALSE
        ELSE CASE a.t = "null" -> TRUE
               [] a.t = "str" -> a.s = b.s
               [] a.t = "list" ->
                    /\ Len(a.xs) = Len(b.xs)
                    /\ \A i \in 1..Len(a.xs) : PyEq(a.xs[i], b.xs[i])
               [] OTHER ->
                    /\ Len(a.xs) = Len(b.xs)
                    /\ \A i \in 1..Len(a.xs) :
                          /\ HasKey(b, a.xs[i][1])
                          /\ PyEq(a.xs[i][2], Lookup(b, a.xs[i][1]))

Quote == "\""

Backslash == "\\"

Newline == "\n"

\* the encoder's escaping of the characters of a string (ensure_ascii=False)
RECURSIVE EscapeChars(_)
EscapeChars(cs) ==
    LET EscapeChar(c) ==
            CASE c = Quote -> <<Backslash, Quote>>
              [] c = Backslash -> <<Backslash, Backslash>>
              [] c = Newline -> <<Backslash, "n">>
              [] OTHER -> <<c>>
    IN  IF cs = <<>> THEN <<>> ELSE EscapeChar(Head(cs)) \o EscapeChars(Tail(cs))

\* a string written with its characters as they are
JsonQuoteRaw(cs) == <<Quote>> \o cs \o <<Quote>>

\* a string as the encoder writes it
JsonQuote(cs) == <<Quote>> \o EscapeChars(cs) \o <<Quote>>

RECURSIVE Spaces(_)
Spaces(k) == IF k <= 0 THEN <<>> ELSE <<" ">> \o Spaces(k - 1)

\* json.dump(data, f, indent=indent, ensure_ascii=False): the text written,
\* for a value at nesting depth level
RECURSIVE JsonDump(_, _, _), JsonDumpItems(_, _, _, _)
JsonDump(v, indent, level) ==
    CASE v.t = "null" -> <<"n", "u", "l", "l">>
      [] v.t = "bool" -> IF v.n = 1 THEN <<"t", "r", "u", "e">> ELSE <<"f", "a", "l", "s", "e">>
      [] v.t = "int" -> PyStr(v)
      [] v.t = "float" ->
            IF v.k = "nan" THEN <<"N", "a", "N">>
            ELSE IF v.k = "inf"
            THEN (IF v.n < 0 THEN <<"-">> ELSE <<>>) \o <<"I", "n", "f", "i", "n", "i", "t", "y">>
            ELSE FloatToStr(v)
      [] v.t = "str" -> JsonQuote(v.s)
      [] v.t = "list" ->
            IF v.xs = <<>> THEN <<"[", "]">>
            ELSE <<"[">> \o JsonDumpItems(v.xs, FALSE, indent, level + 1)
                     \o <<Newline>> \o Spaces(indent * level) \o <<"]">>
      [] OTHER ->
            IF v.xs = <<>> THEN <<"{", "}">>
            ELSE <<"{">> \o JsonDumpItems(v.xs, TRUE, indent, level + 1)
                     \o <<Newline>> \o Spaces(indent * level) \o <<"}">>

\* the items of a container, each on a line of its own
JsonDumpItems(xs, pairs, indent, level) ==
    IF xs = <<>> THEN <<>>
    ELSE LET one == IF pairs
                    THEN JsonQuote(Head(xs)[1]) \o <<":", " ">>
                             \o JsonDump(Head(xs)[2], indent, level)
                    ELSE JsonDump(Head(xs), indent, level)
         IN  <<Newline>> \o Spaces(indent * level) \o one
                 \o (IF Len(xs) = 1 THEN <<>> ELSE <<",">>)
                 \o JsonDumpItems(Tail(xs), pairs, indent, level)

\* the decoder: a step answers the value read and the position after it
NoParse == [ok |-> FALSE, v |-> Null, p |-> 0]

Parsed(v, p) == [ok |-> TRUE, v |-> v, p |-> p]

\* the first position from p on that holds no white space
RECURSIVE SkipWs(_, _)
SkipWs(cs, p) ==
    IF p <= Len(cs) /\ cs[p] \in {" ", Newline, "\t", "\r"} THEN SkipWs(cs, p + 1) ELSE p

HasAt(cs, p, lit) == p + Len(lit) - 1 <= Len(cs) /\ SubSeq(cs, p, p + Len(lit) - 1) = lit

CharAt(cs, p) == IF p <= Len(cs) THEN cs[p] ELSE ""

RECURSIVE DigitsEnd(_, _)
DigitsEnd(cs, p) == IF p <= Len(cs) /\ IsDigit(cs[p]) THEN DigitsEnd(cs, p + 1) ELSE p

\* the characters of a string literal after its opening quote
RECURSIVE ParseString(_, _, _)
ParseString(cs, p, acc) ==
    IF p > Len(cs) \/ cs[p] = Newline THEN NoParse
    ELSE IF cs[p] = Quote THEN Parsed(StrV(acc), p + 1)
    ELSE IF cs[p] = Backslash
    THEN (IF CharAt(cs, p + 1) \in {Quote, Backslash, "/"}
          THEN ParseString(cs, p + 2, Append(acc, cs[p + 1]))
          ELSE IF CharAt(cs, p + 1) = "n" THEN ParseString(cs, p + 2, Append(acc, Newline))
          ELSE NoParse)
    ELSE ParseString(cs, p + 1, Append(acc, cs[p]))

\* the float m * 10^(-sc) in the form repr() prints it from: an integral
\* value below 10^16 has no exponent, a larger one no trailing zero
RECURSIVE FloatOf(_, _)
FloatOf(m, sc) ==
    IF m = 0 THEN FloatV(0, 0)
    ELSE IF sc >= 0 THEN Normalize(m, sc)
    ELSE IF Len(NatToStr(Abs(m))) - sc <= 16 THEN FloatV(m * Pow10(0 - sc), 0)
    ELSE IF m % 10 = 0 THEN FloatOf(m \div 10, sc - 1)
    ELSE FloatV(m, sc)

\* (-?(?:0|[1-9]\d*))(\.\d+)?([eE][-+]?\d+)? : an integer when there is
\* neither fraction nor exponent, else a float, infinite beyond the range
ParseNumber(cs, p) ==
    LET neg == CharAt(cs, p) = "-"
        i0 == IF neg THEN p + 1 ELSE p
        i1 == IF CharAt(cs, i0) = "0" THEN i0 + 1 ELSE DigitsEnd(cs, i0)
        hasFrac == CharAt(cs, i1) = "." /\ IsDigit(CharAt(cs, i1 + 1))
        f1 == IF hasFrac THEN DigitsEnd(cs, i1 + 1) ELSE i1
        e0 == IF CharAt(cs, f1 + 1) \in {"+", "-"} THEN f1 + 2 ELSE f1 + 1
        hasExp == CharAt(cs, f1) \in {"e", "E"} /\ IsDigit(CharAt(cs, e0))
        e1 == IF hasExp THEN DigitsEnd(cs, e0) ELSE f1
        sign == IF neg THEN 0 - 1 ELSE 1
        int == SubSeq(cs, i0, i1 - 1)
        frac == IF hasFrac THEN SubSeq(cs, i1 + 1, f1 - 1) ELSE <<>>
        expo == IF hasExp
                THEN (IF CharAt(cs, f1 + 1) = "-" THEN 0 - 1 ELSE 1)
                         * DigitsVal(SubSeq(cs, e0, e1 - 1))
                ELSE 0
        m == DigitsVal(int \o frac)
    IN  IF i1 = i0 THEN NoParse
        ELSE IF ~hasFrac /\ ~hasExp THEN Parsed(IntV(sign * m), e1)
        ELSE IF m /= 0 /\ Len(NatToStr(m)) + expo - Len(frac) - 1 > DBL_MAX_10_EXP
        THEN Parsed(Inf(sign), e1)
        ELSE Parsed(FloatOf(sign * m, Len(frac) - expo), e1)

RECURSIVE ParseValue(_, _), ParseElements(_, _, _), ParsePairs(_, _, _)
ParseValue(cs, p) ==
    LET c == CharAt(cs, p)
    IN  CASE HasAt(cs, p, <<"n", "u", "l", "l">>) -> Parsed(Null, p + 4)
          [] HasAt(cs, p, <<"t", "r", "u", "e">>) -> Parsed(BoolV(TRUE), p + 4)
          [] HasAt(cs, p, <<"f", "a", "l", "s", "e">>) -> Parsed(BoolV(FALSE), p + 5)
          [] HasAt(cs, p, <<"N", "a", "N">>) -> Parsed(NaN, p + 3)
          [] HasAt(cs, p, <<"I", "n", "f", "i", "n", "i", "t", "y">>) -> Parsed(Inf(1), p + 8)
          [] HasAt(cs, p, <<"-", "I", "n", "f", "i", "n", "i", "t", "y">>) ->
                Parsed(Inf(0 - 1), p + 9)
          [] c = Quote -> ParseString(cs, p + 1, <<>>)
          [] c = "[" ->
                IF CharAt(cs, SkipWs(cs, p + 1)) = "]"
                THEN Parsed(ListV(<<>>), SkipWs(cs, p + 1) + 1)
                ELSE ParseElements(cs, p + 1, <<>>)
          [] c = "{" ->
                IF CharAt(cs, SkipWs(cs, p + 1)) = "}"
                THEN Parsed(DictV(<<>>), SkipWs(cs, p + 1) + 1)
                ELSE ParsePairs(cs, p + 1, <<>>)
          [] c = "-" \/ IsDigit(c) -> ParseNumber(cs, p)
          [] OTHER -> NoParse

\* value , value ... ]
ParseElements(cs, p, acc) ==
    LET r == ParseValue(cs, SkipWs(cs, p))
        q == SkipWs(cs, r.p)
    IN  IF ~r.ok THEN NoParse
        ELSE IF CharAt(cs, q) = "]" THEN Parsed(ListV(Append(acc, r.v)), q + 1)
        ELSE IF CharAt(cs, q) = "," THEN ParseElements(cs, q + 1, Append(acc, r.v))
        ELSE NoParse

\* "key" : value , "key" : value ... } ; a repeated key keeps its place and
\* takes the later value
ParsePairs(cs, p, acc) ==
    LET PutPair(pairs, k, v) ==
            IF \E i \in 1..Len(pairs) : pairs[i][1] = k
            THEN [i \in 1..Len(pairs) |-> IF pairs[i][1] = k THEN <<k, v>> ELSE pairs[i]]
            ELSE Append(pairs, <<k, v>>)
        k0 == SkipWs(cs, p)
        key == IF CharAt(cs, k0) = Quote THEN ParseString(cs, k0 + 1, <<>>) ELSE NoParse
        colon == SkipWs(cs, key.p)
        r == IF key.ok /\ CharAt(cs, colon) = ":"
             THEN ParseValue(cs, SkipWs(cs, colon + 1))
             ELSE NoParse
        q == SkipWs(cs, r.p)
    IN  IF ~r.ok THEN NoParse
        ELSE IF CharAt(cs, q) = "}" THEN Parsed(DictV(PutPair(acc, key.v.s, r.v)), q + 1)
        ELSE IF CharAt(cs, q) = "," THEN ParsePairs(cs, q + 1, PutPair(acc, key.v.s, r.v))
        ELSE NoParse

\* json.load of a text: one value and nothing but white space around it
JsonLoad(cs) ==
    LET r == ParseValue(cs, SkipWs(cs, 1))
    IN  IF r.ok /\ SkipWs(cs, r.p) = Len(cs) + 1 THEN Return(r.v) ELSE Raise("JSONDecodeError")

\* mkdir of the parent, open(file_path, "w") and json.dump inside one try
\* block; except Exception: return False. Answers the outcome and the file
\* left behind, which holds what json.load reads from the text written
save_json(f, data, indent) ==
    LET written == JsonLoad(JsonDump(data, indent, 0))
    IN  IF f.kind \in {"inaccessible", "unreadable"}
        THEN [out |-> Return(BoolV(FALSE)), file |-> f]
        ELSE [out |-> Return(BoolV(TRUE)),
              file |-> IF written.exc = "none"
                       THEN [kind |-> "json", doc |-> written.ret]
                       ELSE [kind |-> "garbage", doc |-> Null]]

\* -------------------------------------------------- monsters_service.py
F_id == <<"i", "d">>

F_name == <<"n", "a", "m", "e">>

F_hp == <<"h", "p">>

F_exp == <<"e", "x", "p">>

F_loot == <<"l", "o", "o", "t">>

F_location == <<"l", "o", "c", "a", "t", "i", "o", "n">>

F_difficulty == <<"d", "i", "f", "f", "i", "c", "u", "l", "t", "y">>

RequiredMonsterFields == <<F_id, F_name, F_hp, F_exp, F_loot, F_location>>

\* the truth value of a Python value (not data)
Truthy(v) ==
    CASE v.t = "null" -> FALSE
      [] v.t = "bool" -> v.n = 1
      [] v.t = "int" -> v.n /= 0
      [] v.t = "float" -> v.k /= "fin" \/ v.n /= 0
      [] v.t = "str" -> v.s /= <<>>
      [] OTHER -> v.xs /= <<>>

\* the Monster value record: text fields are strings, hp and exp are ints,
\* difficulty is the raw optional value
Monster(id, name, hp, exp, loot, location, difficulty) ==
    [id |-> id, name |-> name, hp |-> hp, exp |-> exp, loot |-> loot,
     location |-> location, difficulty |-> difficulty]

\* the first raised outcome of a sequence of evaluation steps, if any
FirstRaised(steps) ==
    IF \E i \in 1..Len(steps) : steps[i].exc /= "none"
    THEN steps[CHOOSE i \in 1..Len(steps) :
                 steps[i].exc /= "none" /\ \A j \in 1..(i - 1) : steps[j].exc = "none"]
    ELSE Return(Null)

\* str(item[key])
StrField(item, key) ==
    LET r == PyGetItem(item, key)
    IN  IF r.exc /= "none" THEN r ELSE Return(StrV(PyStr(r.ret)))

\* safe_int(item[key])
IntField(item, key) ==
    LET r == PyGetItem(item, key)
    IN  IF r.exc /= "none" THEN r ELSE safe_int(r.ret, IntV(0))

\* the body of the try block: the keyword arguments in order, then Monster(...)
BuildMonster(item) ==
    LET id == StrField(item, F_id)
        name == StrField(item, F_name)
        hp == IntField(item, F_hp)
        exp == IntField(item, F_exp)
        loot == StrField(item, F_loot)
        location == StrField(item, F_location)
        difficulty == PyGet(item, F_difficulty, Null)
        bad == FirstRaised(<<id, name, hp, exp, loot, location, difficulty>>)
    IN  IF bad.exc /= "none" THEN bad
        ELSE Return(Monster(id.ret.s, name.ret.s, hp.ret, exp.ret, loot.ret.s,
                            location.ret.s, difficulty.ret))

\* the loop with break in place of continue after a failed validation
RECURSIVE LoadLoopBreak(_, _)
LoadLoopBreak(items, monsters) ==
    IF items = <<>> THEN Return(monsters)
    ELSE LET item == Head(items)
             ok == validate_required_fields(item, RequiredMonsterFields)
             m == BuildMonster(item)
             logged == PyGet(item, F_id, StrV(<<"u", "n", "k", "n", "o", "w", "n">>))
         IN  IF ok.exc /= "none" THEN Raise(ok.exc)
             ELSE IF ok.ret.n = 0 THEN Return(monsters)
             ELSE IF m.exc = "none" THEN LoadLoopBreak(Tail(items), Append(monsters, m.ret))
             ELSE IF logged.exc /= "none" THEN Raise(logged.exc)
             ELSE LoadLoopBreak(Tail(items), monsters)

\* for item in data: validate, build and append, or log from the handler
RECURSIVE LoadLoop(_, _)
LoadLoop(items, monsters) ==
    IF items = <<>> THEN Return(monsters)
    ELSE LET item == Head(items)
             ok == validate_required_fields(item, RequiredMonsterFields)
             m == BuildMonster(item)
             logged == PyGet(item, F_id, StrV(<<"u", "n", "k", "n", "o", "w", "n">>))
         IN  IF ok.exc /= "none" THEN Raise(ok.exc)
             ELSE IF ok.ret.n = 0 THEN LoadLoop(Tail(items), monsters)
             ELSE IF m.exc = "none" THEN LoadLoop(Tail(items), Append(monsters, m.ret))
             ELSE IF logged.exc /= "none" THEN Raise(logged.exc)
             ELSE LoadLoop(Tail(items), monsters)

load_monsters(f) ==
    LET data == load_json(f)
    IN  IF data.exc /= "none" THEN data
        ELSE IF ~Truthy(data.ret) \/ data.ret.t /= "list" THEN Return(<<>>)
        ELSE LoadLoop(data.ret.xs, <<>>)

\* get_monster_by_id answering the last monster with the id
get_monster_by_id_last(f, monster_id) ==
    LET monsters == load_monsters(f)
        Hit(i) == monsters.ret[i].id = monster_id
    IN  IF monsters.exc /= "none" THEN monsters
        ELSE IF \E i \in 1..Len(monsters.ret) : Hit(i)
        THEN Return(monsters.ret[CHOOSE i \in 1..Len(monsters.ret) :
                                   Hit(i) /\ \A j \in (i + 1)..Len(monsters.ret) : ~Hit(j)])
        ELSE Return(Null)

\* for monster in monsters: if monster.id == monster_id: return monster
get_monster_by_id(f, monster_id) ==
    LET monsters == load_monsters(f)
        Hit(i) == monsters.ret[i].id = monster_id
    IN  IF monsters.exc /= "none" THEN monsters
        ELSE IF \E i \in 1..Len(monsters.ret) : Hit(i)
        THEN Return(monsters.ret[CHOOSE i \in 1..Len(monsters.ret) :
                                   Hit(i) /\ \A j \in 1..(i - 1) : ~Hit(j)])
        ELSE Return(Null)

\* search_monsters taking the monsters whose name, location or loot is the
\* query
search_monsters_whole_field(f, query) ==
    LET monsters == load_monsters(f)
        query_lower == Lower(query)
        Match(monster) ==
            \/ query_lower = Lower(monster.name)
            \/ query_lower = Lower(monster.location)
            \/ query_lower = Lower(monster.loot)
    IN  IF query = <<>> THEN monsters
        ELSE IF monsters.exc /= "none" THEN monsters
        ELSE Return(SelectSeq(monsters.ret, Match))

\* search_monsters looking at the name only
search_monsters_by_name(f, query) ==
    LET monsters == load_monsters(f)
        query_lower == Lower(query)
        Match(monster) == IsSubstring(query_lower, Lower(monster.name))
    IN  IF query = <<>> THEN monsters
        ELSE IF monsters.exc /= "none" THEN monsters
        ELSE Return(SelectSeq(monsters.ret, Match))

\* if not query: return load_monsters(); else the monsters with query_lower
\* in the lowered name, location or loot
search_monsters(f, query) ==
    LET monsters == load_monsters(f)
        query_lower == Lower(query)
        Match(monster) ==
            \/ IsSubstring(query_lower, Lower(monster.name))
            \/ IsSubstring(query_lower, Lower(monster.location))
            \/ IsSubstring(query_lower, Lower(monster.loot))
    IN  IF query = <<>> THEN monsters
        ELSE IF monsters.exc /= "none" THEN monsters
        ELSE Return(SelectSeq(monsters.ret, Match))

\* filter_monsters_by_location comparing the lowered texts for equality
filter_monsters_by_location_exact(f, location) ==
    LET monsters == load_monsters(f)
        location_lower == Lower(location)
        Match(m) == location_lower = Lower(m.location)
    IN  IF monsters.exc /= "none" THEN monsters
        ELSE Return(SelectSeq(monsters.ret, Match))

\* [m for m in monsters if location_lower in m.location.lower()]
filter_monsters_by_location(f, location) ==
    LET monsters == load_monsters(f)
        location_lower == Lower(location)
        Match(m) == IsSubstring(location_lower, Lower(m.location))
    IN  IF monsters.exc /= "none" THEN monsters
        ELSE Return(SelectSeq(monsters.ret, Match))

\* a < b for strings: by code point at the first difference, a proper prefix
\* first; Ascii is the printable ASCII characters in code point order, from
\* 32, but the grave accent (96)
StrLess(a, b) ==
    LET Ascii ==
            <<" ", "!", "\"", "#", "$", "%", "&", "'", "(", ")", "*", "+", ",", "-", ".", "/",
              "0", "1", "2", "3", "4", "5", "6", "7", "8", "9", ":", ";", "<", "=", ">", "?",
              "@", "A", "B", "C", "D", "E", "F", "G", "H", "I", "J", "K", "L", "M", "N", "O",
              "P", "Q", "R", "S", "T", "U", "V", "W", "X", "Y", "Z", "[", "\\", "]", "^", "_",
              "a", "b", "c", "d", "e", "f", "g", "h", "i", "j", "k", "l", "m", "n", "o",
              "p", "q", "r", "s", "t", "u", "v", "w", "x", "y", "z", "{", "|", "}", "~">>
        CodePoint(c) ==
            LET i == CHOOSE j \in 1..Len(Ascii) : Ascii[j] = c
            IN  IF i <= 64 THEN 31 + i ELSE 32 + i
    IN  \E i \in 1..(Len(b)) :
            /\ \A j \in 1..(i - 1) : j <= Len(a) /\ a[j] = b[j]
            /\ Len(a) >= i - 1
            /\ (Len(a) = i - 1 \/ CodePoint(a[i]) < CodePoint(b[i]))

\* sorted(S) of a set of strings
RECURSIVE Sorted(_)
Sorted(S) ==
    IF S = {} THEN <<>>
    ELSE LET least == CHOOSE a \in S : \A b \in S \ {a} : StrLess(a, b)
         IN  <<least>> \o Sorted(S \ {least})

\* get_locations without set and sorted: the location of each monster in turn
get_locations_in_load_order(f) ==
    LET monsters == load_monsters(f)
    IN  IF monsters.exc /= "none" THEN monsters
        ELSE Return([i \in 1..Len(monsters.ret) |-> monsters.ret[i].location])

\* sorted(set(monster.location for monster in monsters))
get_locations(f) ==
    LET monsters == load_monsters(f)
    IN  IF monsters.exc /= "none" THEN monsters
        ELSE Return(Sorted({monsters.ret[i].location : i \in 1..Len(monsters.ret)}))

\* ----------------------------------------------- server_info_service.py
F_rates == <<"r", "a", "t", "e", "s">>

F_website == <<"w", "e", "b", "s", "i", "t", "e">>

DefaultServerId == <<"s", "e", "r", "v", "e", "r", "_", "0", "0", "1">>

DefaultServerName == <<"F", "i", "b", "u", "l", "a", " ", "P", "r", "o", "j", "e", "c", "t">>

\* the ServerInfo value record: id, name, description and version are
\* strings, the other fields are the raw values
ServerInfo(id, name, description, rates, version, website, discord, additional_info) ==
    [id |-> id, name |-> name, description |-> description, rates |-> rates,
     version |-> version, website |-> website, discord |-> discord,
     additional_info |-> additional_info]

\* ServerInfo(id=..., name=str(data.get("name", "Fibula Project")), ...) for
\* a mapping: no data.get and no str() can raise
ServerInfoOf(data, id) ==
    ServerInfo(id,
               PyStr(PyGet(data, F_name, StrV(DefaultServerName)).ret),
               PyStr(PyGet(data, <<"d", "e", "s", "c", "r", "i", "p", "t", "i", "o", "n">>,
                           StrV(<<>>)).ret),
               PyGet(data, F_rates, DictV(<<>>)).ret,
               PyStr(PyGet(data, <<"v", "e", "r", "s", "i", "o", "n">>,
                           StrV(<<"7", ".", "1">>)).ret),
               PyGet(data, F_website, Null).ret,
               PyGet(data, <<"d", "i", "s", "c", "o", "r", "d">>, Null).ret,
               PyGet(data, <<"a", "d", "d", "i", "t", "i", "o", "n", "a", "l", "_",
                             "i", "n", "f", "o">>, Null).ret)

\* load_server_info reading the id with data["id"] inside the try block
load_server_info_required(f) ==
    LET data == load_json(f)
    IN  IF data.exc /= "none" THEN data
        ELSE IF ~Truthy(data.ret) \/ data.ret.t /= "dict" THEN Return(Null)
        ELSE IF PyGetItem(data.ret, F_id).exc /= "none" THEN Return(Null)
        ELSE Return(ServerInfoOf(data.ret, PyStr(PyGetItem(data.ret, F_id).ret)))

\* if not data or not isinstance(data, dict): return None; then the try block
load_server_info(f) ==
    LET data == load_json(f)
    IN  IF data.exc /= "none" THEN data
        ELSE IF ~Truthy(data.ret) \/ data.ret.t /= "dict" THEN Return(Null)
        ELSE Return(ServerInfoOf(data.ret,
                                 PyStr(PyGet(data.ret, F_id, StrV(DefaultServerId)).ret)))

\* ---------------------------------------------------- search_service.py
MAX_SEARCH_RESULTS == 100

SEARCH_SNIPPET_LENGTH == 150

\* the kinds of entity in the order their hits are merged
Kinds == <<"weapon", "equipment", "spell", "monster", "quest">>

\* the snippet of a text: the text when it is short enough, else a window of
\* max_length characters around the first occurrence of the query, letter
\* case ignored, or the head of the text, with an ellipsis where text was cut
\* create_snippet marking every text as cut, short ones too
create_snippet_always_marked(text, query, max_length) ==
    IF text = <<>> THEN <<>>
    ELSE SubSeq(text, 1, max_length) \o <<".", ".", ".">>

\* create_snippet with a window of max_length characters on either side of
\* the occurrence
create_snippet_wide(text, query, max_length) ==
    LET Ellipsis == <<".", ".", ".">>
        offs == {off \in 0..(Len(text) - Len(query)) :
                    SubSeq(Lower(text), off + 1, off + Len(query)) = Lower(query)}
        i == IF offs = {} THEN 0 ELSE CHOOSE off \in offs : \A other \in offs : off <= other
        start == IF i - max_length < 0 THEN 0 ELSE i - max_length
        end == IF i + max_length > Len(text) THEN Len(text) ELSE i + max_length
    IN  IF Len(text) <= max_length THEN text
        ELSE (IF start > 0 THEN Ellipsis ELSE <<>>)
                 \o SubSeq(text, start + 1, end)
                 \o (IF end < Len(text) THEN Ellipsis ELSE <<>>)

\* create_snippet cutting from the start of the text wherever the query is
create_snippet_from_start(text, query, max_length) ==
    IF Len(text) <= max_length THEN text
    ELSE SubSeq(text, 1, max_length) \o <<".", ".", ".">>

create_snippet(text, query, max_length) ==
    LET Ellipsis == <<".", ".", ".">>
        offs == {off \in 0..(Len(text) - Len(query)) :
                    SubSeq(Lower(text), off + 1, off + Len(query)) = Lower(query)}
        i == IF offs = {} THEN 0 - 1 ELSE CHOOSE off \in offs : \A other \in offs : off <= other
        centred == i - (max_length \div 2)
        last == Len(text) - max_length
        start == IF centred < 0 THEN 0 ELSE IF centred > last THEN last ELSE centred
    IN  IF text = <<>> THEN <<>>
        ELSE IF Len(text) <= max_length THEN text
        ELSE IF i < 0 THEN SubSeq(text, 1, max_length) \o Ellipsis
        ELSE (IF start > 0 THEN Ellipsis ELSE <<>>)
                 \o SubSeq(text, start + 1, start + max_length)
                 \o (IF start + max_length < Len(text) THEN Ellipsis ELSE <<>>)

\* the SearchResult value record
SearchResult(entity_type, entity_id, name, snippet) ==
    [entity_type |-> entity_type, entity_id |-> entity_id, name |-> name, snippet |-> snippet]

\* the results of the hits of one kind, in the order of the hits; the
\* snippet is cut from the free text of the hit, and an item without a
\* description falls back on its name
ResultsOf(kind, entities, query) ==
    LET SnippetText(entity) ==
            IF kind \in {"weapon", "equipment"} /\ entity.text = <<>>
            THEN entity.name
            ELSE entity.text
    IN  [i \in 1..Len(entities) |->
            SearchResult(kind, entities[i].id, entities[i].name,
                         create_snippet(SnippetText(entities[i]), query,
                                        SEARCH_SNIPPET_LENGTH))]

\* the merged results of the kinds without the cut at the maximum
MergedUncut(kinds, hits, query) ==
    LET RECURSIVE MergeFrom(_)
        MergeFrom(k) ==
            IF k > Len(kinds) THEN <<>>
            ELSE ResultsOf(kinds[k], hits[kinds[k]], query) \o MergeFrom(k + 1)
    IN  MergeFrom(1)

\* the results of the kinds, merged in the order of kinds and cut at the
\* maximum; MergeFrom(k) is the results of the kinds from the k-th on
Merged(kinds, hits, query) ==
    LET RECURSIVE MergeFrom(_)
        MergeFrom(k) ==
            IF k > Len(kinds) THEN <<>>
            ELSE ResultsOf(kinds[k], hits[kinds[k]], query) \o MergeFrom(k + 1)
        all == MergeFrom(1)
    IN  IF Len(all) <= MAX_SEARCH_RESULTS THEN all ELSE SubSeq(all, 1, MAX_SEARCH_RESULTS)

\* search_all without the early exit on a blank query
search_all_any_query(query, hits) ==
    Return(Merged(Kinds, hits, query))

\* search_all merging the monsters before the other kinds
search_all_monsters_first(query, hits) ==
    IF Strip(query) = <<>> THEN Return(<<>>)
    ELSE Return(Merged(<<"monster", "weapon", "equipment", "spell", "quest">>, hits, query))

\* search_all(query), where hits[kind] is what the search function of the
\* kind answers for the query: nothing for an empty or blank query, else the
\* merged results, cut at the maximum
search_all(query, hits) ==
    IF Strip(query) = <<>> THEN Return(<<>>)
    ELSE Return(Merged(Kinds, hits, query))

\* search_by_entity_type answering with the results of every kind
search_by_entity_type_any_kind(query, entity_type, hits) ==
    search_all(query, hits)

\* search_by_entity_type looking the kind up without a check
search_by_entity_type_unchecked(query, entity_type, hits) ==
    IF \A k \in 1..Len(Kinds) : Kinds[k] /= entity_type THEN Raise("KeyError")
    ELSE search_all(query, [kind \in DOMAIN hits |->
                               IF kind = entity_type THEN hits[kind] ELSE <<>>])

\* search_by_entity_type(query, entity_type): search_all with the fan-out
\* restricted to the one kind, and nothing for a kind that is not known
search_by_entity_type(query, entity_type, hits) ==
    IF \A k \in 1..Len(Kinds) : Kinds[k] /= entity_type THEN Return(<<>>)
    ELSE IF Strip(query) = <<>> THEN Return(<<>>)
    ELSE Return(Merged(<<entity_type>>, hits, query))

\* ------------------------------------------------------- logging_utils.py
\* os.getenv("LOG_LEVEL", "INFO") with the variable not set
LOG_LEVEL == <<"I", "N", "F", "O">>

\* setup_logger(name, level). A logger is its level and the levels of its
\* handlers; logging.getLogger(name) makes it with the level NOTSET and no
\* handler when it is new. The level is getattr(logging, log_level.upper(),
\* logging.INFO): an attribute of the logging module that is no level makes
\* setLevel raise. The console handler is made, with the level of the logger,
\* only when the logger has no handler
setup_logger(ls, name, level) ==
    LET log_level == IF Truthy(level) THEN level.s ELSE LOG_LEVEL
        attr == Lower(log_level)
        levelno ==
            CASE attr = <<"n", "o", "t", "s", "e", "t">> -> 0
              [] attr = <<"d", "e", "b", "u", "g">> -> 10
              [] attr = <<"i", "n", "f", "o">> -> 20
              [] attr \in {<<"w", "a", "r", "n", "i", "n", "g">>, <<"w", "a", "r", "n">>} -> 30
              [] attr = <<"e", "r", "r", "o", "r">> -> 40
              [] attr \in {<<"c", "r", "i", "t", "i", "c", "a", "l">>, <<"f", "a", "t", "a", "l">>} -> 50
              [] OTHER -> 20
        levelled == [ls EXCEPT ![name].level = levelno]
    IN  IF attr = <<"b", "a", "s", "i", "c", "_", "f", "o", "r", "m", "a", "t">>
        THEN [out |-> Raise("ValueError"), loggers |-> ls]
        ELSE [out |-> Return(StrV(name)),
              loggers |-> IF levelled[name].handlers = <<>>
                          THEN [levelled EXCEPT ![name].handlers = <<levelno>>]
                          ELSE levelled]

\* log_exception(logger, exception, context): logger.error(...). The record
\* is written by the console handler when ERROR is enabled for the logger
\* (a logger with the level NOTSET takes the level of the root logger,
\* WARNING) and is not below the level of the handler
log_exception(ls, name) ==
    LET ERROR == 40
        WARNING == 30
        logger == ls[name]
        effective == IF logger.level = 0 THEN WARNING ELSE logger.level
    IN  Return(BoolV(/\ ERROR >= effective
                     /\ \E h \in 1..Len(logger.handlers) : ERROR >= logger.handlers[h]))

\* the loggers when the modules are imported: app_logger =
\* setup_logger("fibulopedia"), and a name no logger was asked for yet
ImportedLoggers ==
    LET fibulopedia == <<"f", "i", "b", "u", "l", "o", "p", "e", "d", "i", "a">>
        NewLoggers == [name \in {fibulopedia, <<"x">>} |-> [level |-> 0, handlers |-> <<>>]]
    IN  setup_logger(NewLoggers, fibulopedia, Null).loggers

\* ------------------------------------------------------- bounded inputs
SeqsUpTo(S, k) == UNION {[1..m -> S] : m \in 0..k}

\* the values handed to the coercions: every string of at most MaxStrLen
\* characters, the strings of the tests, and values of every other type
CoerceValues ==
    LET CoerceChars == {"4", "7", "-", ".", " ", "a"}
        CoerceStrings ==
            SeqsUpTo(CoerceChars, MaxStrLen)
                \cup {<<"4", "2">>, <<"4", "2", ".", "7">>, <<" ", "4", "2", " ">>, <<"+", "4", "2">>,
                      <<"1", "_", "0">>, <<"4", "2", ".", "7", "0">>, <<"i", "n", "f">>,
                      <<"-", "I", "n", "f">>, <<"n", "a", "n">>,
                      <<"n", "o", "t", " ", "a", " ", "n", "u", "m", "b", "e", "r">>}
    IN  {StrV(cs) : cs \in CoerceStrings}
            \cup {Null, BoolV(TRUE), BoolV(FALSE), IntV(0), IntV(42), IntV(0 - 7),
                  BigIntV(1, 308), BigIntV(2, 308), BigIntV(1, 400),
                  FloatV(427, 1), FloatV(0 - 427, 1), FloatV(425, 1), FloatV(0 - 5, 1),
                  FloatV(42, 0), Inf(1), Inf(0 - 1), NaN,
                  ListV(<<>>), ListV(<<IntV(1), IntV(2), IntV(3)>>), ListV(<<Null>>),
                  DictV(<<>>), DictV(<<<<F_id, IntV(1)>>>>)}

IntDefaults == {IntV(0), IntV(10)}

FloatDefaults == {FloatV(0, 0), FloatV(15, 1)}

\* default=None, or a list
ListDefaults == {Null, ListV(<<StrV(<<"d", "e", "f", "a", "u", "l", "t">>)>>)}

\* one raw monster record: the six required fields but those of missing,
\* and the optional difficulty when it is not None
MonsterRecord(idv, hpv, expv, diffv, missing) ==
    LET all == <<<<F_id, idv>>, <<F_name, StrV(<<"R", "a", "t">>)>>, <<F_hp, hpv>>,
                 <<F_exp, expv>>, <<F_loot, StrV(<<"g", "p">>)>>,
                 <<F_location, StrV(<<"T", "h", "a", "i", "s">>)>>,
                 <<F_difficulty, diffv>>>>
        Keep(p) == p[1] \notin missing /\ (p[1] = F_difficulty => diffv /= Null)
    IN  DictV(SelectSeq(all, Keep))

\* the elements a monsters document is made of: mappings, and JSON values
\* that are not mappings
Items ==
    LET IdValues == {StrV(<<"a">>), StrV(<<>>), Null}
        HpValues ==
            {IntV(20), StrV(<<"4", "2">>), StrV(<<"4", ".", "7">>), StrV(<<"a", "b", "c">>),
             StrV(<<>>), Null, FloatV(0 - 427, 1), Inf(1), NaN}
        AllFieldNames ==
            <<"i", "d", " ", "n", "a", "m", "e", " ", "h", "p", " ", "e", "x", "p", " ",
              "l", "o", "o", "t", " ", "l", "o", "c", "a", "t", "i", "o", "n">>
    IN  {MonsterRecord(i, h, IntV(5), Null, {}) : i \in IdValues, h \in HpValues}
            \cup {MonsterRecord(StrV(<<"b">>), IntV(20), e, Null, {}) : e \in {Inf(1), StrV(<<"x">>)}}
            \cup {MonsterRecord(StrV(<<"c">>), IntV(20), IntV(5), Null, {f}) :
                    f \in {RequiredMonsterFields[i] : i \in 1..6}}
            \cup {MonsterRecord(StrV(<<"d">>), IntV(20), IntV(5), StrV(<<"e", "a", "s", "y">>), {})}
            \cup {IntV(5), Null, StrV(F_id), StrV(AllFieldNames), ListV(<<StrV(F_id)>>),
                  ListV([i \in 1..6 |-> StrV(RequiredMonsterFields[i])])}

\* the backing file: absent, in a directory that cannot be searched, not
\* readable, not JSON, or a JSON document; Documents is what json.load can
\* return for the monsters file
Files ==
    LET Documents ==
            {ListV(xs) : xs \in SeqsUpTo(Items, MaxRecords)}
                \cup {Null, IntV(0), BoolV(TRUE), StrV(<<"x">>),
                      MonsterRecord(StrV(<<"a">>), IntV(20), IntV(5), Null, {})}
    IN  {[kind |-> k, doc |-> Null] : k \in {"missing", "inaccessible", "unreadable", "garbage"}}
            \cup {[kind |-> "json", doc |-> doc] : doc \in Documents}

\* the data handed to save_json: a sequence or a mapping of primitives
SaveData ==
    LET Primitives ==
            {StrV(cs) : cs \in {<<"T", "e", "s", "t">>, <<>>, <<"a", Quote>>, <<Backslash, "n">>,
                                <<Newline>>}}
                \cup {Null, BoolV(TRUE), BoolV(FALSE), IntV(123), IntV(0 - 7), IntV(0),
                      FloatV(425, 1), FloatV(42, 0), FloatV(1, 0 - 308), Inf(1), Inf(0 - 1), NaN}
    IN  {ListV(xs) : xs \in SeqsUpTo(Primitives, MaxRecords)}
            \cup {DictV(<<>>)}
            \cup {DictV(<<<<F_name, p>>>>) : p \in Primitives}
            \cup {DictV(<<<<F_name, p>>, <<<<"v", "a", "l", "u", "e">>, q>>>>) :
                    p \in Primitives, q \in Primitives}

\* records to search, valid records with an id, a name, a loot and a
\* location: two share an id, two locations differ in case only, one has a
\* blank inside its location; and a record that lacks a required field
QueryFiles ==
    LET QueryItems ==
            LET NamedRecord(idv, namev, lootv, locv) ==
                    DictV(<<<<F_id, StrV(idv)>>, <<F_name, StrV(namev)>>, <<F_hp, IntV(20)>>,
                            <<F_exp, IntV(5)>>, <<F_loot, StrV(lootv)>>, <<F_location, StrV(locv)>>>>)
            IN  {NamedRecord(<<"a">>, <<"R", "a", "t">>, <<"g", "p">>, <<"T", "h", "a", "i", "s">>),
                 NamedRecord(<<"b">>, <<"O", "r", "c">>, <<"H", "a", "t">>, <<"C", "a", "v", "e">>),
                 NamedRecord(<<"a">>, <<"B", "a", "t">>, <<"r", "a", "t">>, <<"c", "a", "v", "e">>),
                 NamedRecord(<<"d">>, <<"O", "x">>, <<>>, <<"R", "a", "t", " ", "H", "i", "l", "l">>),
                 MonsterRecord(StrV(<<"c">>), IntV(20), IntV(5), Null, {F_location})}
    IN  {[kind |-> k, doc |-> Null] : k \in {"missing", "inaccessible", "garbage"}}
            \cup {[kind |-> "json", doc |-> ListV(xs)] : xs \in SeqsUpTo(QueryItems, MaxRecords)}

\* the search and filter arguments: empty, blank, and texts in either case
Queries ==
    {<<>>, <<" ">>, <<" ", " ">>, <<"r", "a", "t">>, <<"R", "A", "T">>, <<"z", "z">>,
     <<"C", "a", "v", "e">>, <<"t", "h">>}

\* the contents an external edit can leave in the file
EditFiles == {f \in QueryFiles : f.kind = "json" => Len(f.doc.xs) <= 1}

\* the server info file: as the monsters file, with mappings and values that
\* are not mappings for documents; in a mapping each key of ServerOptions is
\* left out or given one of its values, ServerPairs(k) taking the first k keys
ServerFiles ==
    LET ServerOptions ==
            <<<<F_id, {StrV(<<"s", "1">>), IntV(7)}>>,
              <<F_name, {StrV(<<"F", "i", "b", "u", "l", "a">>)}>>,
              <<F_rates, {DictV(<<<<F_exp, IntV(5)>>>>), StrV(<<"x">>)}>>,
              <<F_website, {Null, StrV(<<"w">>)}>>>>
        RECURSIVE ServerPairs(_)
        ServerPairs(k) ==
            IF k = 0 THEN {<<>>}
            ELSE LET key == ServerOptions[k][1]
                 IN  ServerPairs(k - 1)
                         \cup {Append(ps, <<key, v>>) :
                                 ps \in ServerPairs(k - 1), v \in ServerOptions[k][2]}
    IN  {[kind |-> k, doc |-> Null] : k \in {"missing", "inaccessible", "unreadable", "garbage"}}
            \cup {[kind |-> "json", doc |-> DictV(ps)] : ps \in ServerPairs(Len(ServerOptions))}
            \cup {[kind |-> "json", doc |-> doc] :
                    doc \in {Null, IntV(0), IntV(5), BoolV(TRUE), StrV(<<"x">>), ListV(<<>>),
                             ListV(<<DictV(<<<<F_id, StrV(<<"s", "1">>)>>>>)>>)}}

\* what the five search functions answer to one call. An entity is its id,
\* its name and the free text its snippet is cut from. Candidates is the
\* entities each search can answer with; the long answers have numbered
\* weapons and monsters, around MAX_SEARCH_RESULTS of them together
HitLists ==
    LET Entity(id, name, text) == [id |-> id, name |-> name, text |-> text]
        Candidates ==
            [kind \in {Kinds[k] : k \in 1..Len(Kinds)} |->
                CASE kind = "weapon" ->
                        {Entity(<<"w", "1">>, <<"D", "r", "a", "g", "o", "n", " ", "S", "w", "o", "r", "d">>, <<>>),
                         Entity(<<"w", "2">>, <<"A", "x", "e">>, <<"d", "r", "a", "g", "o", "n">>)}
                  [] kind = "equipment" -> {Entity(<<"e", "1">>, <<"H", "a", "t">>, <<"a", " ", "h", "a", "t">>)}
                  [] kind = "spell" ->
                        {Entity(<<"s", "1">>, <<"F", "i", "r", "e">>, <<"d", "r", "a", "g", "o", "n", " ", "f", "i", "r", "e">>)}
                  [] kind = "monster" ->
                        {Entity(<<"m", "1">>, <<"D", "r", "a", "g", "o", "n">>, <<"g", "p">>),
                         Entity(<<"m", "2">>, <<"R", "a", "t">>, <<>>)}
                  [] OTHER -> {Entity(<<"q", "1">>, <<"H", "u", "n", "t">>, <<"s", "l", "a", "y">>)}]
        Numbered(letter, n) ==
            [i \in 1..n |-> Entity(<<letter>> \o NatToStr(i), <<"D", "r", "a", "g", "o", "n">>, <<>>)]
    IN  {[weapon |-> w, equipment |-> e, spell |-> s, monster |-> m, quest |-> q] :
            w \in SeqsUpTo(Candidates["weapon"], MaxRecords),
            e \in SeqsUpTo(Candidates["equipment"], MaxRecords),
            s \in SeqsUpTo(Candidates["spell"], MaxRecords),
            m \in SeqsUpTo(Candidates["monster"], MaxRecords),
            q \in SeqsUpTo(Candidates["quest"], MaxRecords)}
        \cup {[weapon |-> Numbered("w", w), equipment |-> <<>>, spell |-> <<>>,
               monster |-> Numbered("m", m), quest |-> q] :
                w \in {MAX_SEARCH_RESULTS \div 2, MAX_SEARCH_RESULTS - 1,
                       MAX_SEARCH_RESULTS, MAX_SEARCH_RESULTS + 1},
                m \in {0, 1, MAX_SEARCH_RESULTS \div 2 + 1},
                q \in SeqsUpTo(Candidates["quest"], 1)}

\* --------------------------------------------------------------- actions
NoFile == [kind |-> "missing", doc |-> Null]

\* the last call observed: the operation, its argument and second argument,
\* the backing file as the call found it, and the outcome
NoCall == [op |-> "none", arg |-> Null, dflt |-> Null, at |-> NoFile, out |-> Return(Null)]

Init ==
    /\ loggers = ImportedLoggers
    /\ file \in Files
    /\ call = NoCall

\* the coercion functions are pure: the argument and the default are drawn
\* here and the actions apply a function to them
InitCoerce ==
    /\ loggers = ImportedLoggers
    /\ file = NoFile
    /\ \E v \in CoerceValues, dflt \in IntDefaults \cup FloatDefaults \cup ListDefaults :
          call = [NoCall EXCEPT !.arg = v, !.dflt = dflt]

CallLoadJson ==
    /\ call' = [call EXCEPT !.op = "load_json", !.at = file, !.out = load_json(file)]
    /\ UNCHANGED <<file, loggers>>

\* load_monsters answering what the call before it answered
CallLoadMonstersCached ==
    /\ call' = [op |-> "load_monsters", arg |-> Null, dflt |-> Null, at |-> file,
                out |-> IF call.op = "load_monsters" THEN call.out ELSE load_monsters(file)]
    /\ UNCHANGED <<file, loggers>>

CallLoadMonsters ==
    /\ call' = [op |-> "load_monsters", arg |-> Null, dflt |-> Null, at |-> file,
                out |-> load_monsters(file)]
    /\ UNCHANGED <<file, loggers>>

CallSafeInt ==
    /\ call.dflt \in IntDefaults
    /\ call' = [call EXCEPT !.op = "safe_int", !.out = safe_int(call.arg, call.dflt)]
    /\ UNCHANGED <<file, loggers>>

CallSafeFloat ==
    /\ call.dflt \in FloatDefaults
    /\ call' = [call EXCEPT !.op = "safe_float", !.out = safe_float(call.arg, call.dflt)]
    /\ UNCHANGED <<file, loggers>>

CallSafeList ==
    /\ call.dflt \in ListDefaults
    /\ call' = [call EXCEPT !.op = "safe_list", !.out = safe_list(call.arg, call.dflt)]
    /\ UNCHANGED <<file, loggers>>

\* validate_required_fields on an element of the document, with the fields
\* load_monsters requires or the id and name alone
CallValidateRequiredFields ==
    /\ file.kind = "json"
    /\ file.doc.t = "list"
    /\ \E i \in 1..Len(file.doc.xs),
          required_fields \in {RequiredMonsterFields, <<F_id, F_name>>} :
          call' = [call EXCEPT !.op = "validate_required_fields",
                               !.arg = file.doc.xs[i],
                               !.dflt = ListV([k \in 1..Len(required_fields) |->
                                                 StrV(required_fields[k])]),
                               !.at = file,
                               !.out = validate_required_fields(file.doc.xs[i],
                                                                required_fields)]
    /\ UNCHANGED <<file, loggers>>

Next == CallLoadJson \/ CallLoadMonsters \/ CallValidateRequiredFields

Spec == Init /\ [][Next]_vars

NextCoerce == CallSafeInt \/ CallSafeFloat \/ CallSafeList

SpecCoerce == InitCoerce /\ [][NextCoerce]_vars

\* save_json(path, data, indent): the path before the write is absent, not
\* writable or an earlier document; the data and the indent, none or the
\* default of two, are drawn here
InitSave ==
    /\ loggers = ImportedLoggers
    /\ file \in {[kind |-> k, doc |-> Null] : k \in {"missing", "inaccessible", "unreadable"}}
                    \cup {[kind |-> "json", doc |-> ListV(<<IntV(1)>>)]}
    /\ \E data \in SaveData, indent \in {0, 2} :
          call = [NoCall EXCEPT !.arg = data, !.dflt = IntV(indent)]

CallSaveJson ==
    LET r == save_json(file, call.arg, call.dflt.n)
    IN  /\ call.dflt.t = "int"
        /\ file' = r.file
        /\ UNCHANGED loggers
        /\ call' = [call EXCEPT !.op = "save_json", !.at = file, !.out = r.out]

NextSave == CallSaveJson \/ CallLoadJson

SpecSave == InitSave /\ [][NextSave]_vars

InitQuery ==
    /\ loggers = ImportedLoggers
    /\ file \in QueryFiles
    /\ call = NoCall

CallGetMonsterById ==
    /\ \E monster_id \in {<<"a">>, <<"b">>, <<"z">>} :
          call' = [op |-> "get_monster_by_id", arg |-> StrV(monster_id), dflt |-> Null,
                   at |-> file, out |-> get_monster_by_id(file, monster_id)]
    /\ UNCHANGED <<file, loggers>>

CallSearchMonsters ==
    /\ \E query \in Queries :
          call' = [op |-> "search_monsters", arg |-> StrV(query), dflt |-> Null,
                   at |-> file, out |-> search_monsters(file, query)]
    /\ UNCHANGED <<file, loggers>>

CallFilterMonstersByLocation ==
    /\ \E location \in Queries :
          call' = [op |-> "filter_monsters_by_location", arg |-> StrV(location), dflt |-> Null,
                   at |-> file, out |-> filter_monsters_by_location(file, location)]
    /\ UNCHANGED <<file, loggers>>

CallGetLocations ==
    /\ call' = [op |-> "get_locations", arg |-> Null, dflt |-> Null,
                at |-> file, out |-> get_locations(file)]
    /\ UNCHANGED <<file, loggers>>

NextQuery ==
    \/ CallLoadMonsters
    \/ CallGetMonsterById
    \/ CallSearchMonsters
    \/ CallFilterMonstersByLocation
    \/ CallGetLocations

SpecQuery == InitQuery /\ [][NextQuery]_vars

\* the backing file is edited from outside the program
EditFile ==
    /\ file' \in EditFiles \ {file}
    /\ UNCHANGED <<call, loggers>>

InitEdit ==
    /\ loggers = ImportedLoggers
    /\ file \in EditFiles
    /\ call = NoCall

NextEdit ==
    \/ EditFile
    \/ CallLoadMonsters
    \/ CallGetMonsterById
    \/ CallSearchMonsters
    \/ CallFilterMonstersByLocation
    \/ CallGetLocations

SpecEdit == InitEdit /\ [][NextEdit]_vars

InitServer ==
    /\ loggers = ImportedLoggers
    /\ file \in ServerFiles
    /\ call = NoCall

CallLoadServerInfo ==
    /\ call' = [op |-> "load_server_info", arg |-> Null, dflt |-> Null, at |-> file,
                out |-> load_server_info(file)]
    /\ UNCHANGED <<file, loggers>>

NextServer == CallLoadServerInfo \/ CallLoadJson

SpecServer == InitServer /\ [][NextServer]_vars

\* the query and the answers of the per-entity search functions are drawn here
\* the searches: file is what the five search functions answer, call.arg
\* the query and call.dflt the kind a search is restricted to
InitSearch ==
    /\ loggers = ImportedLoggers
    /\ \E hits \in HitLists : file = [kind |-> "hits", doc |-> hits]
    /\ \E query \in {<<>>, <<" ">>, <<"d", "r", "a", "g", "o", "n">>, <<"z", "z">>} :
          call = [NoCall EXCEPT !.arg = StrV(query)]

CallSearchAll ==
    /\ call' = [call EXCEPT !.op = "search_all", !.dflt = Null, !.at = file,
                            !.out = search_all(call.arg.s, file.doc)]
    /\ UNCHANGED <<file, loggers>>

CallSearchByEntityType ==
    /\ \E entity_type \in {Kinds[k] : k \in 1..Len(Kinds)} \cup {"not_a_real_kind", ""} :
          call' = [call EXCEPT !.op = "search_by_entity_type", !.dflt = entity_type,
                               !.at = file,
                               !.out = search_by_entity_type(call.arg.s, entity_type, file.doc)]
    /\ UNCHANGED <<file, loggers>>

NextSearch == CallSearchAll \/ CallSearchByEntityType

SpecSearch == InitSearch /\ [][NextSearch]_vars

\* the snippets: call.arg is the text, call.dflt the query and max_length.
\* The inputs are every text of at most MaxStrLen + 2 characters in two
\* letters, either case of one, with every query of at most two
\* characters and every max_length up to MaxStrLen, and the calls of the tests
InitSnippet ==
    LET SnippetChars == {"a", "A", "b"}
        Dragons ==
            <<"T", "h", "i", "s", " ", "i", "s", " ", "a", " ", "l", "o", "n",
              "g", " ", "t", "e", "x", "t", " ", "a", "b", "o", "u", "t", " ",
              "d", "r", "a", "g", "o", "n", "s", " ", "a", "n", "d", " ", "t",
              "h", "e", "i", "r", " ", "t", "r", "e", "a", "s", "u", "r", "e",
              "s">>
        SomeText == <<"T", "h", "i", "s", " ", "i", "s", " ", "s", "o", "m",
                      "e", " ", "t", "e", "x", "t">>
        ShortText == <<"S", "h", "o", "r", "t", " ", "t", "e", "x", "t">>
        NotFound == <<"n", "o", "t", "f", "o", "u", "n", "d">>
        Small == {<<text, query, n>> : text \in SeqsUpTo(SnippetChars, MaxStrLen + 2),
                                     query \in SeqsUpTo(SnippetChars, 2), n \in 0..MaxStrLen}
        Tests == {<<Dragons, <<"d", "r", "a", "g", "o", "n">>, 30>>,
                  <<Dragons, <<"T", "R", "E", "A", "S", "U", "R", "E", "S">>, 18>>,
                  <<Dragons, SomeText, 12>>,
                  <<SomeText, NotFound, 20>>,
                  <<<<>>, <<"q", "u", "e", "r", "y">>, 50>>,
                  <<ShortText, <<"t", "e", "x", "t">>, 50>>}
    IN  /\ loggers = ImportedLoggers
        /\ file = NoFile
        /\ \E in \in Small \cup Tests :
              call = [NoCall EXCEPT !.arg = StrV(in[1]),
                                    !.dflt = [query |-> in[2], max_length |-> in[3]]]

CallCreateSnippet ==
    /\ call' = [call EXCEPT !.op = "create_snippet",
                            !.out = Return(create_snippet(call.arg.s, call.dflt.query,
                                                          call.dflt.max_length))]
    /\ UNCHANGED <<file, loggers>>

NextSnippet == CallCreateSnippet

SpecSnippet == InitSnippet /\ [][NextSnippet]_vars

\* the loggers: setup_logger and log_exception for the logger of a name
InitLogger ==
    /\ loggers = ImportedLoggers
    /\ file = NoFile
    /\ call = NoCall

CallSetupLogger ==
    \E name \in DOMAIN loggers,
       level \in {Null} \cup {StrV(cs) : cs \in
                    {<<>>, <<"D", "E", "B", "U", "G">>, <<"d", "e", "b", "u", "g">>,
                     <<"I", "N", "F", "O">>, <<"W", "A", "R", "N", "I", "N", "G">>,
                     <<"E", "R", "R", "O", "R">>, <<"C", "R", "I", "T", "I", "C", "A", "L">>,
                     <<"N", "O", "T", "S", "E", "T">>, <<"v", "e", "r", "b", "o", "s", "e">>,
                     <<"b", "a", "s", "i", "c", "_", "f", "o", "r", "m", "a", "t">>}} :
        LET r == setup_logger(loggers, name, level)
        IN  /\ call' = [call EXCEPT !.op = "setup_logger", !.arg = StrV(name),
                                    !.dflt = level, !.out = r.out]
            /\ loggers' = r.loggers
            /\ UNCHANGED file

CallLogException ==
    /\ \E name \in DOMAIN loggers :
          call' = [call EXCEPT !.op = "log_exception", !.arg = StrV(name), !.dflt = Null,
                               !.out = log_exception(loggers, name)]
    /\ UNCHANGED <<file, loggers>>

NextLogger == CallSetupLogger \/ CallLogException

SpecLogger == InitLogger /\ [][NextLogger]_vars

\* the requests: in SpecConcurrent call[r] is the call request r is making,
\* with its place in the code (read: before load_json; loop: before the
\* i-th item of data; finish: load_monsters has returned; done), its local
\* variables data and monsters, and its outcome. The file does not change
InitConcurrent ==
    /\ loggers = ImportedLoggers
    /\ file \in QueryFiles
    /\ call = [r \in 1..MaxRequests |->
                  [op |-> "none", arg |-> <<>>, pc |-> "idle", data |-> <<>>, i |-> 0,
                   monsters |-> <<>>, out |-> Return(Null)]]

\* one list named monsters for all requests
SharedMonstersVar(r) == 1

\* the request whose record holds the list that monsters names in the
\* load_monsters of request r: monsters is a local variable
MonstersVar(r) == r

\* a request calls load_monsters(), search_monsters(query) or
\* filter_monsters_by_location(location)
BeginCall(r) ==
    /\ call[r].pc \in {"idle", "done"}
    /\ \E c \in {<<"load_monsters", <<>>>>, <<"search_monsters", <<>>>>,
                  <<"search_monsters", <<"r", "a", "t">>>>,
                  <<"filter_monsters_by_location", <<"c", "a", "v", "e">>>>} :
          call' = [call EXCEPT ![r] = [op |-> c[1], arg |-> c[2], pc |-> "read",
                                       data |-> <<>>, i |-> 0, monsters |-> <<>>,
                                       out |-> Return(Null)]]
    /\ UNCHANGED <<file, loggers>>

\* data = load_json(MONSTERS_FILE), the test of data, and monsters = []
ReadData(r) ==
    /\ call[r].pc = "read"
    /\ LET data == load_json(file)
       IN  call' =
               IF data.exc /= "none"
               THEN [call EXCEPT ![r].pc = "done", ![r].out = data]
               ELSE IF ~Truthy(data.ret) \/ data.ret.t /= "list"
               THEN [call EXCEPT ![MonstersVar(r)].monsters = <<>>, ![r].pc = "finish"]
               ELSE [call EXCEPT ![MonstersVar(r)].monsters = <<>>, ![r].pc = "loop",
                                 ![r].data = data.ret.xs, ![r].i = 1]
    /\ UNCHANGED <<file, loggers>>

\* one turn of the loop over data
LoadItem(r) ==
    /\ call[r].pc = "loop"
    /\ LET req == call[r]
           turn == LoadLoop(<<req.data[req.i]>>, call[MonstersVar(r)].monsters)
       IN  call' =
               IF turn.exc /= "none"
               THEN [call EXCEPT ![r].pc = "done", ![r].out = turn]
               ELSE [call EXCEPT ![MonstersVar(r)].monsters = turn.ret,
                                 ![r].i = req.i + 1,
                                 ![r].pc = IF req.i = Len(req.data) THEN "finish" ELSE "loop"]
    /\ UNCHANGED <<file, loggers>>

\* load_monsters returns monsters; search_monsters and
\* filter_monsters_by_location return their selection of it
ReturnResult(r) ==
    /\ call[r].pc = "finish"
    /\ LET req == call[r]
           monsters == call[MonstersVar(r)].monsters
           InSearch(m) ==
               \/ IsSubstring(Lower(req.arg), Lower(m.name))
               \/ IsSubstring(Lower(req.arg), Lower(m.location))
               \/ IsSubstring(Lower(req.arg), Lower(m.loot))
           InLocation(m) == IsSubstring(Lower(req.arg), Lower(m.location))
           result ==
               CASE req.op = "load_monsters" -> monsters
                 [] req.op = "search_monsters" ->
                        IF req.arg = <<>> THEN monsters ELSE SelectSeq(monsters, InSearch)
                 [] OTHER -> SelectSeq(monsters, InLocation)
       IN  call' = [call EXCEPT ![r].pc = "done", ![r].out = Return(result)]
    /\ UNCHANGED <<file, loggers>>

NextConcurrent ==
    \E r \in 1..MaxRequests : BeginCall(r) \/ ReadData(r) \/ LoadItem(r) \/ ReturnResult(r)

SpecConcurrent == InitConcurrent /\ [][NextConcurrent]_vars

\* ------------------------------------------------- vocabulary of the claims
IsLoad == call.op = "load_monsters"

Result == call.out.ret

\* the elements of the source document when it is a sequence
SourceItems == IF file.kind = "json" /\ file.doc.t = "list" THEN file.doc.xs ELSE <<>>

\* the file holds a sequence of records (mappings)
AllMappings ==
    /\ file.kind = "json"
    /\ file.doc.t = "list"
    /\ \A i \in 1..Len(SourceItems) : SourceItems[i].t = "dict"

HasAllRequired(item) ==
    item.t = "dict" /\ \A i \in 1..Len(RequiredMonsterFields) : HasKey(item, RequiredMonsterFields[i])

IntegerChars == {DigitSeq[i] : i \in 1..10} \cup {"+", "-", " ", "_"}

\* a null, or a string with a character no integer literal has
Unparsable(v) ==
    v.t = "null" \/ (v.t = "str" /\ \E i \in 1..Len(v.s) : v.s[i] \notin IntegerChars)

PlainInt(v) == v.t = "int" /\ v.d = 0

IsInfinite(v) == v.t = "float" /\ v.k = "inf"

\* the decimal rendering of an integer: an optional minus sign, digits, no leading zero
CanonicalIntText(cs) ==
    LET body == IF cs /= <<>> /\ cs[1] = "-" THEN Tail(cs) ELSE cs
    IN  /\ body /= <<>>
        /\ \A i \in 1..Len(body) : IsDigit(body[i])
        /\ (body[1] = "0" => Len(body) = 1 /\ body = cs)

\* ---------------------------------------------------------------- claims

\* C1: load_monsters never raises, whatever load_json returns: no exception
\* escapes to the caller, also when an element of the document is not a mapping.
LoadMonstersNeverRaises == IsLoad => call.out.exc = "none"

\* C2: for a source sequence of records, the records missing a required field
\* are absent, the records having all of them are present, and the length of
\* the result is the source length minus the number of records missing a field.
MissingFieldRecordsExcluded ==
    (IsLoad /\ AllMappings) =>
        /\ call.out.exc = "none"
        /\ Len(Result) = Cardinality({i \in 1..Len(SourceItems) : HasAllRequired(SourceItems[i])})

\* C3: the result holds exactly one entity per valid source record, in source
\* order, and hp and exp are the safe_int coercion of the raw values.
OneEntityPerValidRecordInOrder ==
    (IsLoad /\ AllMappings) =>
        LET valid == SelectSeq(SourceItems, HasAllRequired)
        IN  /\ call.out.exc = "none"
            /\ Len(Result) = Len(valid)
            /\ \A j \in 1..Len(valid) :
                  /\ Result[j].id = PyStr(Lookup(valid[j], F_id))
                  /\ Result[j].hp = safe_int(Lookup(valid[j], F_hp), IntV(0)).ret
                  /\ Result[j].exp = safe_int(Lookup(valid[j], F_exp), IntV(0)).ret

\* the records of the source whose two numeric fields are each an integer or
\* an unparsable value
WithIntOrUnparsable ==
    {i \in 1..Len(SourceItems) :
        /\ HasAllRequired(SourceItems[i])
        /\ \A f \in {F_hp, F_exp} :
              PlainInt(Lookup(SourceItems[i], f)) \/ Unparsable(Lookup(SourceItems[i], f))}

\* C4: a record with all required fields whose hp or exp is unparsable (a
\* non-numeric string or null) is loaded with that field set to 0; the load
\* returns and no other such record is removed.
UnparsableNumericDefaultsToZero ==
    (IsLoad /\ AllMappings) =>
        /\ call.out.exc = "none"
        /\ Len(Result) >= Cardinality(WithIntOrUnparsable)
        /\ \A i \in WithIntOrUnparsable :
              \E j \in 1..Len(Result) :
                  /\ Result[j].id = PyStr(Lookup(SourceItems[i], F_id))
                  /\ \A f \in {F_hp, F_exp} :
                        LET raw == Lookup(SourceItems[i], f)
                            got == IF f = F_hp THEN Result[j].hp ELSE Result[j].exp
                        IN  IF Unparsable(raw) THEN got = IntV(0) ELSE got = raw

UnparsableNumericLoaded ==
    /\ IsLoad
    /\ AllMappings
    /\ Len(Result) = 2
    /\ Unparsable(Lookup(SourceItems[1], F_hp))
    /\ Result[1].hp = IntV(0)
    /\ Result[2].hp = IntV(20)

\* C5 as stated: a record whose numeric field fails type coercion is dropped,
\* so the result holds only the records with all fields whose hp and exp convert.
CoercionFailureDropsRecord ==
    (IsLoad /\ AllMappings) =>
        Len(Result) = Cardinality({i \in 1..Len(SourceItems) :
                          /\ HasAllRequired(SourceItems[i])
                          /\ PyInt(Lookup(SourceItems[i], F_hp)).exc = "none"
                          /\ PyInt(Lookup(SourceItems[i], F_exp)).exc = "none"})

\* C5 amended: a record missing a required field is dropped and the rest of
\* the load proceeds; a record whose numeric field is a non-numeric string,
\* null or NaN is kept (with 0); of the records with all fields only those
\* with an infinite float in hp or exp are dropped.
OnlyMissingFieldOrInfiniteDropsRecord ==
    (IsLoad /\ AllMappings) =>
        /\ call.out.exc = "none"
        /\ Len(Result) = Cardinality({i \in 1..Len(SourceItems) :
                              /\ HasAllRequired(SourceItems[i])
                              /\ ~IsInfinite(Lookup(SourceItems[i], F_hp))
                              /\ ~IsInfinite(Lookup(SourceItems[i], F_exp))})

MissingDroppedCoercionFailureKept ==
    /\ IsLoad
    /\ Len(SourceItems) = 2
    /\ AllMappings
    /\ ~HasAllRequired(SourceItems[1])
    /\ HasAllRequired(SourceItems[2])
    /\ PyInt(Lookup(SourceItems[2], F_hp)).exc = "ValueError"
    /\ Len(Result) = 1
    /\ Result[1].hp = IntV(0)

\* C6: every entity load_monsters returns has a non-empty id, also when the
\* record carries an empty-string or null id.
EveryEntityHasNonEmptyId ==
    (IsLoad /\ call.out.exc = "none") => \A j \in 1..Len(Result) : Result[j].id /= <<>>

\* C7: safe_int, safe_float and safe_list never raise, for any input value.
SafeCoercionsNeverRaise ==
    call.op \in {"safe_int", "safe_float", "safe_list"} => call.out.exc = "none"

\* C8: safe_int returns an integer as it is and the integer an integer-formatted
\* string denotes, truncates a finite float toward zero, and returns the
\* default for None and for a string with a character no integer has ("42.7").
SafeIntStrictAtIntegerBoundary ==
    call.op = "safe_int" =>
        /\ call.arg.t = "int" => call.out = Return(call.arg)
        /\ (call.arg.t = "str" /\ CanonicalIntText(call.arg.s)) =>
              /\ call.out.exc = "none"
              /\ PlainInt(Result)
              /\ IntToStr(Result.n) = call.arg.s
        /\ (call.arg.t = "float" /\ call.arg.k = "fin") =>
              /\ call.out.exc = "none"
              /\ PlainInt(Result)
              /\ Abs(Result.n) * Pow10(call.arg.d) <= Abs(call.arg.n)
              /\ Abs(call.arg.n) < (Abs(Result.n) + 1) * Pow10(call.arg.d)
              /\ Result.n * call.arg.n >= 0
        /\ Unparsable(call.arg) => call.out = Return(call.dflt)

NonIntegerStringGivesDefault ==
    /\ call.op = "safe_int"
    /\ call.arg = StrV(<<"4", "2", ".", "7">>)
    /\ call.dflt = IntV(10)
    /\ call.out = Return(IntV(10))

\* C9: safe_list returns a list unchanged, wraps a scalar in a one-element
\* list, and returns the default (the empty list when none is given) for None.
SafeListContract ==
    call.op = "safe_list" =>
        /\ call.out.exc = "none"
        /\ call.arg.t = "list" => Result = call.arg
        /\ call.arg.t \in {"bool", "int", "float", "str"} => Result = ListV(<<call.arg>>)
        /\ call.arg.t = "null" => Result = (IF call.dflt = Null THEN ListV(<<>>) ELSE call.dflt)

ScalarWrapped ==
    /\ call.op = "safe_list"
    /\ call.arg = StrV(<<>>)
    /\ Result = ListV(<<StrV(<<>>)>>)

\* C10: load_json returns the parsed document when the file exists and holds
\* valid JSON, and returns None without raising when the path does not exist,
\* the content is malformed or any other I/O operation on the path fails.
LoadJsonContract ==
    call.op = "load_json" =>
        /\ call.out.exc = "none"
        /\ file.kind = "json" => Result = file.doc
        /\ file.kind /= "json" => Result = Null

IsSave == call.op = "save_json"

\* the path could be written when save_json was called
WasWritable == call.at.kind \notin {"inaccessible", "unreadable"}

\* a NaN among the primitives of the data
HasNaN(v) ==
    \/ v.k = "nan"
    \/ v.t = "list" /\ \E i \in 1..Len(v.xs) : v.xs[i].k = "nan"
    \/ v.t = "dict" /\ \E i \in 1..Len(v.xs) : v.xs[i][2].k = "nan"

\* what load_json answers for the file as it is now
Reloaded == load_json(file)

\* C11 as stated: for any JSON-serializable mapping or sequence of primitives
\* and a path that can be written, save_json returns True and a following
\* load_json of the same path returns a value equal to the data.
SaveThenLoadGivesEqualData ==
    IsSave /\ WasWritable =>
        /\ call.out = Return(BoolV(TRUE))
        /\ Reloaded.exc = "none"
        /\ PyEq(Reloaded.ret, call.arg)

\* C11 amended: save_json returns True exactly when the path can be written;
\* then, for a mapping with string keys or a sequence whose primitives are
\* strings, integers, booleans, null or floats other than NaN, a following
\* load_json returns a value equal to the data, and with a NaN in the data it
\* returns a value that is not equal to it.
SaveThenLoadGivesEqualDataUnlessNaN ==
    IsSave =>
        /\ call.out = Return(BoolV(WasWritable))
        /\ WasWritable =>
              /\ Reloaded.exc = "none"
              /\ PyEq(Reloaded.ret, call.arg) <=> ~HasNaN(call.arg)

\* a mapping holding a string with a quote and a float was written over an
\* earlier document and reads back
EscapedDataSavedAndReloaded ==
    /\ IsSave
    /\ call.at.kind = "json"
    /\ call.arg = DictV(<<<<F_name, StrV(<<"a", Quote>>)>>,
                          <<<<"v", "a", "l", "u", "e">>, FloatV(425, 1)>>>>)
    /\ call.out = Return(BoolV(TRUE))
    /\ Reloaded = Return(call.arg)

\* ---------------------------------------------- claims on the monster queries
\* what load_monsters answers for the file as the call found it
Loaded == load_monsters(call.at)

\* the elements of the document the call found, when it is a sequence
AtItems == IF call.at.kind = "json" /\ call.at.doc.t = "list" THEN call.at.doc.xs ELSE <<>>

IsRecord(item) == item.t = "dict" /\ HasAllRequired(item)

\* the records of the document the call found
ValidAt == SelectSeq(AtItems, IsRecord)

\* the monster carries the texts of the record
FromRecord(m, item) ==
    /\ IsRecord(item)
    /\ m.id = PyStr(Lookup(item, F_id))
    /\ m.name = PyStr(Lookup(item, F_name))
    /\ m.loot = PyStr(Lookup(item, F_loot))
    /\ m.location = PyStr(Lookup(item, F_location))

\* q occurs in text when letter case is ignored
ContainsNoCase(text, q) ==
    \E off \in 0..(Len(text) - Len(q)) :
        \A k \in 1..Len(q) : LowerChar(text[off + k]) = LowerChar(q[k])

IsQueryCall ==
    call.op \in {"load_monsters", "search_monsters", "filter_monsters_by_location",
                 "get_locations", "get_monster_by_id"}

\* C12: whatever edits and calls came before, a call answers from the file as
\* it is when the call is made: it raises exactly when that file cannot be
\* reached, every monster it returns is a record of that file, load_monsters
\* returns the records of that file one for one, get_locations the locations
\* of those records, and get_monster_by_id finds a monster exactly when that
\* file has a record with the id.
ResultReflectsFileAtCall ==
    /\ IsQueryCall => (call.out.exc /= "none" <=> call.at.kind = "inaccessible")
    /\ /\ call.op \in {"load_monsters", "search_monsters", "filter_monsters_by_location"}
       /\ call.out.exc = "none"
       => \A i \in 1..Len(call.out.ret) :
              \E j \in 1..Len(AtItems) : FromRecord(call.out.ret[i], AtItems[j])
    /\ call.op = "load_monsters" /\ call.out.exc = "none"
       => /\ Len(call.out.ret) = Len(ValidAt)
          /\ \A i \in 1..Len(ValidAt) : FromRecord(call.out.ret[i], ValidAt[i])
    /\ call.op = "get_locations" /\ call.out.exc = "none"
       => {call.out.ret[i] : i \in 1..Len(call.out.ret)}
             = {PyStr(Lookup(ValidAt[j], F_location)) : j \in 1..Len(ValidAt)}
    /\ call.op = "get_monster_by_id" /\ call.out.exc = "none"
       => IF \E j \in 1..Len(ValidAt) : PyStr(Lookup(ValidAt[j], F_id)) = call.arg.s
          THEN \E j \in 1..Len(ValidAt) :
                  /\ PyStr(Lookup(ValidAt[j], F_id)) = call.arg.s
                  /\ FromRecord(call.out.ret, ValidAt[j])
          ELSE call.out.ret = Null

\* load_monsters returned a monster, then the file was edited to hold
\* another: the result on record is that of the file the call found
EditedAfterLoad ==
    /\ call.op = "load_monsters"
    /\ call.at /= file
    /\ call.out.exc = "none"
    /\ Len(call.out.ret) = 1
    /\ file.kind = "json"
    /\ Len(file.doc.xs) = 1
    /\ load_monsters(file).ret /= call.out.ret

\* C13: search_monsters with an empty or blank (whitespace-only) query
\* returns the full loaded collection, as load_monsters does.
BlankQueryReturnsAll ==
    call.op = "search_monsters" /\ Strip(call.arg.s) = <<>> => call.out = Loaded

\* C14: for a non-empty query search_monsters returns exactly the loaded
\* monsters whose name, location or loot contains the query, letter case
\* ignored, in the order they were loaded; none when nothing matches.
SearchMatchesNameLocationLoot ==
    LET Match(m) ==
            \/ ContainsNoCase(m.name, call.arg.s)
            \/ ContainsNoCase(m.location, call.arg.s)
            \/ ContainsNoCase(m.loot, call.arg.s)
    IN  call.op = "search_monsters" /\ call.arg.s /= <<>> /\ Loaded.exc = "none"
            => call.out = Return(SelectSeq(Loaded.ret, Match))

\* an upper case query found one monster by its loot and one by its location
FoundByLootAndLocation ==
    /\ call.op = "search_monsters"
    /\ call.arg.s = <<"R", "A", "T">>
    /\ call.out.exc = "none"
    /\ Len(call.out.ret) = 2
    /\ call.out.ret[1].name = <<"B", "a", "t">>
    /\ call.out.ret[2].name = <<"O", "x">>

\* C15: filter_monsters_by_location returns exactly the loaded monsters whose
\* location contains the value, letter case ignored, in the order they were
\* loaded; none when no location contains it.
FilterMatchesLocation ==
    LET Match(m) == ContainsNoCase(m.location, call.arg.s)
    IN  call.op = "filter_monsters_by_location" /\ Loaded.exc = "none"
            => call.out = Return(SelectSeq(Loaded.ret, Match))

\* a part of a location in lower case selected the monster of Thais and not
\* the other loaded monster
FilteredByPartOfLocation ==
    /\ call.op = "filter_monsters_by_location"
    /\ call.arg.s = <<"t", "h">>
    /\ Loaded.exc = "none"
    /\ Len(Loaded.ret) = 2
    /\ Len(call.out.ret) = 1
    /\ call.out.ret[1].location = <<"T", "h", "a", "i", "s">>

FirstMonsterWithIdOrNone ==
    LET Hit(i) == Loaded.ret[i].id = call.arg.s
    IN  call.op = "get_monster_by_id" /\ Loaded.exc = "none"
            => /\ call.out.exc = "none"
               /\ Len(Loaded.ret) = Len(ValidAt)
               /\ \A i \in 1..Len(ValidAt) : FromRecord(Loaded.ret[i], ValidAt[i])
               /\ IF \E i \in 1..Len(Loaded.ret) : Hit(i)
                  THEN \E i \in 1..Len(Loaded.ret) :
                          /\ Hit(i)
                          /\ \A j \in 1..(i - 1) : ~Hit(j)
                          /\ call.out.ret = Loaded.ret[i]
                  ELSE call.out.ret = Null

\* two records share the id asked for, both were loaded, the first was returned
FirstOfTwoWithSameId ==
    /\ call.op = "get_monster_by_id"
    /\ call.arg.s = <<"a">>
    /\ Loaded.exc = "none"
    /\ Len(Loaded.ret) = 2
    /\ Loaded.ret[1].id = <<"a">>
    /\ Loaded.ret[2].id = <<"a">>
    /\ Loaded.ret[1].name = <<"B", "a", "t">>
    /\ call.out.ret = Loaded.ret[1]
    /\ call.out.ret /= Loaded.ret[2]

\* ------------------------------------------------- claims on the server info
IsServerInfoCall == call.op = "load_server_info"

\* what load_json answered to the call
ServerData == load_json(call.at)

\* the value of the key in the mapping, or the default
FieldOr(d, key, default) == IF HasKey(d, key) THEN Lookup(d, key) ELSE default

\* C18 as stated: load_server_info returns None when load_json yields None or
\* a value that is not a mapping, and one ServerInfo record for every mapping,
\* without raising.
NoneUnlessMapping ==
    IsServerInfoCall /\ ServerData.exc = "none"
        => /\ call.out.exc = "none"
           /\ call.out.ret = Null <=> ServerData.ret.t /= "dict"

\* C18 amended: load_server_info returns None when load_json yields None, an
\* empty mapping or a value that is not a mapping; for a mapping with at least
\* one key it returns one ServerInfo record whose fields are those of the
\* mapping, or the defaults for the keys it lacks; it raises in neither case.
NoneUnlessNonEmptyMapping ==
    LET d == ServerData.ret
        info == call.out.ret
    IN  IsServerInfoCall /\ ServerData.exc = "none"
            => /\ call.out.exc = "none"
               /\ IF d.t /= "dict" \/ d.xs = <<>>
                  THEN info = Null
                  ELSE /\ info /= Null
                       /\ info.id = PyStr(FieldOr(d, F_id, StrV(DefaultServerId)))
                       /\ info.name = PyStr(FieldOr(d, F_name, StrV(DefaultServerName)))
                       /\ info.description = <<>>
                       /\ info.rates = FieldOr(d, F_rates, DictV(<<>>))
                       /\ info.version = <<"7", ".", "1">>
                       /\ info.website = FieldOr(d, F_website, Null)
                       /\ info.discord = Null
                       /\ info.additional_info = Null

\* a mapping without an id gave a record with the default id, the name and
\* the rates of the file
ServerInfoWithDefaultId ==
    /\ IsServerInfoCall
    /\ call.out.exc = "none"
    /\ call.out.ret /= Null
    /\ ~HasKey(call.at.doc, F_id)
    /\ call.out.ret.id = DefaultServerId
    /\ call.out.ret.name = <<"F", "i", "b", "u", "l", "a">>
    /\ call.out.ret.rates = DictV(<<<<F_exp, IntV(5)>>>>)

\* --------------------------------------------------- claims on search_all
IsSearchAll == call.op = "search_all"

\* what the per-entity search functions answered to the call
Hits == call.at.doc

KindSet == {"weapon", "equipment", "spell", "monster", "quest"}

\* the place of a kind in the merge order
KindRank(kind) ==
    CASE kind = "weapon" -> 1
      [] kind = "equipment" -> 2
      [] kind = "spell" -> 3
      [] kind = "monster" -> 4
      [] kind = "quest" -> 5

\* the results tagged with the kind, in the order they have in the result
OfKind(results, kind) ==
    LET Tagged(r) == r.entity_type = kind
    IN  SelectSeq(results, Tagged)

\* C19: search_all with an empty or blank query returns an empty sequence,
\* whatever the per-entity searches answer, and it returns an empty sequence
\* when no per-entity search has a hit.
NoResultsForBlankQueryOrNoHits ==
    IsSearchAll =>
        /\ call.out.exc = "none"
        /\ Strip(call.arg.s) = <<>> => call.out.ret = <<>>
        /\ (\A kind \in KindSet : Hits[kind] = <<>>) => call.out.ret = <<>>

\* a blank query gave nothing although every kind had hits
BlankQueryDespiteHits ==
    /\ IsSearchAll
    /\ call.arg.s = <<" ">>
    /\ \A kind \in KindSet : Hits[kind] /= <<>>
    /\ call.out = Return(<<>>)

\* C20: for a non-empty query search_all returns one result per hit of a
\* per-entity search, tagged with the kind of the search and carrying the
\* id and name of the hit; results come in the order weapon, equipment,
\* spell, monster, quest, and those of one kind in the order of its hits.
OneResultPerHitInKindOrder ==
    LET results == call.out.ret
    IN  IsSearchAll /\ Strip(call.arg.s) /= <<>> =>
            /\ call.out.exc = "none"
            /\ \A i \in 1..Len(results) : results[i].entity_type \in KindSet
            /\ \A i \in 1..(Len(results) - 1) :
                  KindRank(results[i].entity_type) <= KindRank(results[i + 1].entity_type)
            /\ \A kind \in KindSet :
                  /\ Len(OfKind(results, kind)) = Len(Hits[kind])
                  /\ \A i \in 1..Len(Hits[kind]) :
                        /\ OfKind(results, kind)[i].entity_id = Hits[kind][i].id
                        /\ OfKind(results, kind)[i].name = Hits[kind][i].name

\* two weapons in the order their search gave them, then a spell, then two
\* monsters
WeaponsSpellMonstersMerged ==
    /\ IsSearchAll
    /\ call.arg.s = <<"d", "r", "a", "g", "o", "n">>
    /\ call.out.exc = "none"
    /\ Len(call.out.ret) = 5
    /\ call.out.ret[1].entity_id = <<"w", "2">>
    /\ call.out.ret[2].entity_id = <<"w", "1">>
    /\ call.out.ret[3].entity_type = "spell"
    /\ call.out.ret[4].entity_id = <<"m", "1">>
    /\ call.out.ret[5].entity_id = <<"m", "2">>

\* C20 with the maximum: the results are tagged and ordered by kind, each
\* kind's results are its first hits in their order with their ids and
\* names, and no hit is left out while the hits number at most
\* MAX_SEARCH_RESULTS.
OneResultPerHitUpToMaximum ==
    LET results == call.out.ret
        total == Len(Hits.weapon) + Len(Hits.equipment) + Len(Hits.spell)
                     + Len(Hits.monster) + Len(Hits.quest)
    IN  IsSearchAll /\ Strip(call.arg.s) /= <<>> =>
            /\ call.out.exc = "none"
            /\ \A i \in 1..Len(results) : results[i].entity_type \in KindSet
            /\ \A i \in 1..(Len(results) - 1) :
                  KindRank(results[i].entity_type) <= KindRank(results[i + 1].entity_type)
            /\ \A kind \in KindSet :
                  /\ Len(OfKind(results, kind)) <= Len(Hits[kind])
                  /\ total <= MAX_SEARCH_RESULTS => Len(OfKind(results, kind)) = Len(Hits[kind])
                  /\ \A i \in 1..Len(OfKind(results, kind)) :
                        /\ OfKind(results, kind)[i].entity_id = Hits[kind][i].id
                        /\ OfKind(results, kind)[i].name = Hits[kind][i].name

\* the hits of the call in the merge order, each with its kind
MergedHits ==
    LET Tagged(kind) == [i \in 1..Len(Hits[kind]) |-> <<kind, Hits[kind][i]>>]
    IN  Tagged("weapon") \o Tagged("equipment") \o Tagged("spell")
            \o Tagged("monster") \o Tagged("quest")

\* C21: search_all never raises and never returns more than
\* MAX_SEARCH_RESULTS results; when a non-blank query has more hits than
\* that, the results are the first MAX_SEARCH_RESULTS hits of the merged order.
NeverMoreThanMaximumResults ==
    LET results == call.out.ret
    IN  IsSearchAll =>
            /\ call.out.exc = "none"
            /\ Len(results) <= MAX_SEARCH_RESULTS
            /\ Strip(call.arg.s) /= <<>> /\ Len(MergedHits) > MAX_SEARCH_RESULTS =>
                  /\ Len(results) = MAX_SEARCH_RESULTS
                  /\ \A i \in 1..MAX_SEARCH_RESULTS :
                        /\ results[i].entity_type = MergedHits[i][1]
                        /\ results[i].entity_id = MergedHits[i][2].id
                        /\ results[i].name = MergedHits[i][2].name

\* half the maximum of weapons, one more monster than that and a quest: the
\* last monster and the quest are cut off
LastMonsterAndQuestCutOff ==
    /\ IsSearchAll
    /\ Len(Hits.weapon) + Len(Hits.monster) = MAX_SEARCH_RESULTS + 1
    /\ Len(Hits.weapon) < MAX_SEARCH_RESULTS
    /\ Hits.quest /= <<>>
    /\ call.out.exc = "none"
    /\ Len(call.out.ret) = MAX_SEARCH_RESULTS
    /\ call.out.ret[MAX_SEARCH_RESULTS].entity_type = "monster"
    /\ call.out.ret[MAX_SEARCH_RESULTS].entity_id
          = Hits.monster[Len(Hits.monster) - 1].id

\* ------------------------------------------ claims on search_by_entity_type
IsSearchByEntityType == call.op = "search_by_entity_type"

\* C22: search_by_entity_type for one of the five kinds never raises and
\* returns only results tagged with that kind, whatever the other kinds hit.
OnlyResultsOfTheKind ==
    IsSearchByEntityType /\ call.dflt \in KindSet =>
        /\ call.out.exc = "none"
        /\ \A i \in 1..Len(call.out.ret) : call.out.ret[i].entity_type = call.dflt

\* monsters only, although the query hits weapons and a spell as well
MonstersOnlyDespiteOtherHits ==
    /\ IsSearchByEntityType
    /\ call.dflt = "monster"
    /\ call.arg.s = <<"d", "r", "a", "g", "o", "n">>
    /\ Hits.weapon /= <<>>
    /\ Hits.spell /= <<>>
    /\ call.out.exc = "none"
    /\ Len(call.out.ret) = Len(Hits.monster)
    /\ Len(call.out.ret) > 1
    /\ \A i \in 1..Len(call.out.ret) : call.out.ret[i].entity_type = "monster"

\* C23: search_by_entity_type with a kind that is none of the five returns
\* an empty sequence and does not raise.
UnknownKindGivesNothing ==
    IsSearchByEntityType /\ call.dflt \notin KindSet => call.out = Return(<<>>)

\* an unknown kind gave nothing although the query hits every kind
UnknownKindDespiteHits ==
    /\ IsSearchByEntityType
    /\ call.dflt = "not_a_real_kind"
    /\ call.arg.s = <<"d", "r", "a", "g", "o", "n">>
    /\ \A kind \in KindSet : Hits[kind] /= <<>>
    /\ call.out = Return(<<>>)

\* ------------------------------------------------ claims on create_snippet
IsCreateSnippet == call.op = "create_snippet"

\* the text occurs in the other as a substring when case is ignored
OccursNoCase(query, text) == IsSubstring(Lower(query), Lower(text))

\* C24: create_snippet returns the empty string for an empty text, and the
\* text itself, not cut and not marked, when the text has at most max_length
\* characters, whether the query occurs in it or not.
ShortTextUnchanged ==
    IsCreateSnippet =>
        /\ call.out.exc = "none"
        /\ call.arg.s = <<>> => call.out.ret = <<>>
        /\ Len(call.arg.s) <= call.dflt.max_length => call.out.ret = call.arg.s

\* a text of exactly max_length characters without the query came back as it is
FullLengthTextWithoutQueryKept ==
    /\ IsCreateSnippet
    /\ call.arg.s /= <<>>
    /\ Len(call.arg.s) = call.dflt.max_length
    /\ ~OccursNoCase(call.dflt.query, call.arg.s)
    /\ call.out = Return(call.arg.s)

IsValidate == call.op = "validate_required_fields"

\* a null or an empty string
NullOrEmpty(v) == v.t = "null" \/ (v.t = "str" /\ v.s = <<>>)

\* the records of the file with every required field, one of them null or
\* empty, and hp and exp each null, empty or an int
WithNullOrEmptyField ==
    {i \in 1..Len(SourceItems) :
        /\ HasAllRequired(SourceItems[i])
        /\ \E k \in 1..Len(RequiredMonsterFields) :
              NullOrEmpty(Lookup(SourceItems[i], RequiredMonsterFields[k]))
        /\ \A f \in {F_hp, F_exp} :
              NullOrEmpty(Lookup(SourceItems[i], f)) \/ PlainInt(Lookup(SourceItems[i], f))}

\* C28: validate_required_fields on a record returns True exactly when every
\* required field name is a key of the record, whatever the values and the
\* other keys; and load_monsters loads every record that has all required
\* fields, one of them null or empty: with the str() of its text fields and
\* 0 for a null or empty hp or exp.
ValidationChecksKeyPresenceOnly ==
    /\ IsValidate /\ call.arg.t = "dict" =>
          call.out = Return(BoolV(\A k \in 1..Len(call.dflt.xs) :
                                    HasKey(call.arg, call.dflt.xs[k].s)))
    /\ IsLoad /\ AllMappings =>
          /\ call.out.exc = "none"
          /\ \A i \in WithNullOrEmptyField :
                /\ validate_required_fields(SourceItems[i], RequiredMonsterFields)
                      = Return(BoolV(TRUE))
                /\ \E j \in 1..Len(Result) :
                      /\ FromRecord(Result[j], SourceItems[i])
                      /\ \A f \in {F_hp, F_exp} :
                            LET raw == Lookup(SourceItems[i], f)
                                got == IF f = F_hp THEN Result[j].hp ELSE Result[j].exp
                            IN  IF NullOrEmpty(raw) THEN got = IntV(0) ELSE got = raw

\* a record whose id and hp are null was loaded with the id "None" and hp 0
NullIdAndHpLoaded ==
    /\ IsLoad
    /\ AllMappings
    /\ Len(SourceItems) = 1
    /\ HasAllRequired(SourceItems[1])
    /\ Lookup(SourceItems[1], F_id) = Null
    /\ Lookup(SourceItems[1], F_hp) = Null
    /\ call.out.exc = "none"
    /\ Len(Result) = 1
    /\ Result[1].id = <<"N", "o", "n", "e">>
    /\ Result[1].hp = IntV(0)

\* ------------------------------------- relations between the monster queries
\* a is b with some elements left out, the order kept
RECURSIVE IsSubsequence(_, _)
IsSubsequence(a, b) ==
    IF a = <<>> THEN TRUE
    ELSE IF b = <<>> THEN FALSE
    ELSE IF Head(a) = Head(b) THEN IsSubsequence(Tail(a), Tail(b))
    ELSE IsSubsequence(a, Tail(b))

\* the queries that occur in the query of the call when case is ignored: its
\* substrings, and the queries of the model
QueriesWithin ==
    {SubSeq(call.arg.s, i, j) : i \in 1..(Len(call.arg.s) + 1), j \in 0..Len(call.arg.s)}
        \cup {q \in Queries : IsSubstring(Lower(q), Lower(call.arg.s))}

\* C29: against one unchanged file, search_monsters(q) is load_monsters()
\* with some monsters left out and the order kept; the monsters returned for
\* a query are among those returned for every query that occurs in it, case
\* ignored; and the monsters filter_monsters_by_location returns for a
\* non-empty value are among those search_monsters returns for the value.
SearchNarrowsLoadAndWidensFilter ==
    /\ call.op = "search_monsters" /\ call.out.exc = "none" =>
          /\ Loaded.exc = "none"
          /\ IsSubsequence(call.out.ret, Loaded.ret)
          /\ \A q1 \in QueriesWithin :
                /\ search_monsters(call.at, q1).exc = "none"
                /\ IsSubsequence(call.out.ret, search_monsters(call.at, q1).ret)
    /\ call.op = "filter_monsters_by_location" /\ call.arg.s /= <<>>
                                               /\ call.out.exc = "none" =>
          /\ search_monsters(call.at, call.arg.s).exc = "none"
          /\ IsSubsequence(call.out.ret, search_monsters(call.at, call.arg.s).ret)

\* of two loaded monsters the query "rat" returned the second alone, and the
\* query "a" inside it returns both
SecondOfTwoFoundAndBothForPart ==
    /\ call.op = "search_monsters"
    /\ call.arg.s = <<"r", "a", "t">>
    /\ call.out.exc = "none"
    /\ Loaded.exc = "none"
    /\ Len(Loaded.ret) = 2
    /\ call.out.ret = <<Loaded.ret[2]>>
    /\ Loaded.ret[1] /= Loaded.ret[2]
    /\ search_monsters(call.at, <<"a">>) = Loaded

\* ------------------------------------------------- claims on setup_logger
\* the logger the call was made for
CalledLogger == loggers[call.arg.s]

\* C30: after any sequence of setup_logger calls for a name the logger has
\* exactly one console handler, and the level of the handler is the level
\* of the logger.
OneHandlerAtTheLevelOfTheLogger ==
    call.op = "setup_logger" /\ call.out.exc = "none" =>
        /\ Len(CalledLogger.handlers) = 1
        /\ CalledLogger.handlers[1] = CalledLogger.level

\* ------------------------------------------------ claims on concurrent calls
\* what the call of the request returns when it runs alone on the file
Alone(r) ==
    CASE call[r].op = "load_monsters" -> load_monsters(file)
      [] call[r].op = "search_monsters" -> search_monsters(file, call[r].arg)
      [] OTHER -> filter_monsters_by_location(file, call[r].arg)

\* C27: while the file is not modified, every load, search and filter call
\* of a request, however its steps are interleaved with the steps of the
\* calls of other requests, ends with the outcome it has when run alone.
EveryCallAsIfAlone ==
    \A r \in 1..MaxRequests : call[r].pc = "done" => call[r].out = Alone(r)

\* the second request searched and returned one of the two monsters of the
\* file while the first was in the middle of its loop
SearchedDuringTheLoadOfAnother ==
    /\ call[1].op = "load_monsters"
    /\ call[1].pc = "loop"
    /\ call[1].i = 2
    /\ Len(call[1].monsters) = 1
    /\ call[2].op = "search_monsters"
    /\ call[2].pc = "done"
    /\ call[2].out.exc = "none"
    /\ Len(call[2].out.ret) = 1
    /\ Len(load_monsters(file).ret) = 2

====
